---- MODULE Spec2Model ----
(***************************************************************************)
(* NILM template: the on/off status labeler (ml/common.py compute_status), *)
(* the window provider (ml/common.py WindowGenerator), inference with a    *)
(* converted model (ml/common.py tflite_infer), the position embeddings,   *)
(* the transformer block and the training and evaluation steps             *)
(* (ml/transformer_model.py). Each component has a specification of its    *)
(* own: Spec, SpecFilter, SpecWindow, SpecTwin, SpecInfer, SpecEmbed,      *)
(* SpecLayer, SpecStep and SpecFit.                                        *)
(*                                                                         *)
(* Array indices are Python's (0-based) wherever they are VALUES (event    *)
(* indices, window rows); the sequences that hold arrays are TLA+          *)
(* sequences, so Python's a[i] is a[i + 1] here.                           *)
(***************************************************************************)
EXTENDS Integers, Sequences, FiniteSets, TLC

VARIABLES
    \* ---- compute_status ----
    appliance,        \* the appliance name passed to compute_status
    appliance_power,  \* the power trace passed to compute_status (W)
    pc,               \* position inside compute_status
    initial_status,   \* appliance_power >= threshold
    events_idx,       \* transition indices
    on_events,        \* on-event indices
    off_events,       \* off-event indices
    status,           \* the list compute_status returns
    feed,             \* "trace": first call; "binary"/"watts": a relabeling call
    first_power,      \* the trace of the first call
    first_status,     \* the result of the first call
    \* ---- WindowGenerator ----
    X,                \* dataset[0], the aggregate samples
    y,                \* dataset[1], the appliance targets
    activations,      \* dataset[2], the appliance status
    batch_size,       \* self.batch_size
    window_length,    \* self.window_length
    train,            \* self.train
    shuffle,          \* self.shuffle
    p,                \* self.p: None, or <<percent>> for a proportion
    wg_pc,            \* "new", "ready", "served" or "failed"
    total_samples,    \* self.total_samples
    window_center,    \* self.window_center
    num_samples,      \* self.num_samples
    indices,          \* self.indices
    samples,          \* self.samples
    targets,          \* self.targets
    self_status,      \* self.status
    len_result,       \* what the last __len__() returned
    item_index,       \* the index of the last __getitem__(index)
    rows,             \* the rows of the last __getitem__(index)
    returned,         \* what the last __getitem__(index) returned
    \* ---- tflite_infer ----
    input_details,    \* the interpreter's input: floating, scale, zero_point
    output_details,   \* the interpreter's output: floating, scale, zero_point
    num_eval,         \* the argument num_eval
    eval_offset,      \* the argument eval_offset
    infer_pc,         \* "called", "running", "returned" or "raised"
    samples_per_batch, \* provider.__len__()
    eval_indices,     \* the provider indices to run
    results,          \* the list of (ground_truth, prediction) so far
    backend_log,      \* the calls made on the interpreter, in order
    \* ---- RelativePositionEmbedding ----
    max_length,       \* self._max_length
    embeddings,       \* self._embeddings, the learned table (row numbers)
    actual_seq_len,   \* the sequence length of the input of call()
    position_embeddings, \* what call() returns, along the sequence axis
    pe_pc,            \* "new", "built", "called" or "failed"
    \* ---- NILMTransformerModelFit ----
    data_y,           \* y of the batch (data[1])
    data_status,      \* y_status of the batch (data[2])
    forward_pred,     \* what self(x) returns for the batch
    model_threshold,  \* self.threshold
    l1_loss_c0,       \* self.l1_loss_c0
    applied,          \* the number of optimizer.apply_gradients calls
    trainable_variables, \* the number of updates of each trainable layer
    loss_tracker,     \* the losses given to self.loss_tracker
    mae_metric,       \* the (y, y_pred) arrays given to self.mae_metric
    msle_metric,      \* the (y, y_pred) arrays given to self.msle_metric
    train_out,        \* the losses of the last train_step
    test_out,         \* the losses of the last test_step
    step_result,      \* the dict the last step since the reset returned
    \* ---- PositionEmbedding and TransformerBlock ----
    pos_max_length,   \* the argument max_length: None, or <<n>>
    pos_pc,           \* "args", "constructed", "raised", "built",
                      \* "build_failed", "called" or "call_failed"
    pos_rows,         \* the number of rows of self._position_embeddings
    blk_hidden,       \* the argument hidden
    blk_heads,        \* the argument attn_heads
    blk_d_k,          \* d_k of the block's attention
    blk_pc,           \* "args", "constructed", "raised", "called" or
                      \* "call_failed"
    \* ---- the two filters of compute_status on given event arrays ----
    flt_on_events,    \* on_events before the filters
    flt_off_events,   \* off_events before the filters
    flt_min_off,      \* min_off_duration, in samples
    flt_min_on,       \* min_on_duration, in samples
    flt_on,           \* on_events as the last filter left it
    flt_off,          \* off_events as the last filter left it
    flt_pc,           \* "args", "off_filtered", "on_filtered" or "failed"
    \* ---- a second WindowGenerator on the same dataset and arguments ----
    twin_pc,          \* "new" or "ready"
    twin_indices,     \* its self.indices
    twin_samples,     \* its self.samples
    twin_targets,     \* its self.targets
    twin_status       \* its self.status

statusVars == <<appliance, appliance_power, pc, initial_status, events_idx,
                on_events, off_events, status, feed, first_power, first_status>>

datasetVars == <<X, y, activations>>

argVars == <<batch_size, window_length, train, shuffle, p>>

attrVars == <<total_samples, window_center, num_samples, samples, targets,
              self_status>>

windowVars == <<datasetVars, argVars, attrVars, wg_pc, indices, len_result,
                item_index, rows, returned>>

inferVars == <<input_details, output_details, num_eval, eval_offset, infer_pc,
               samples_per_batch, eval_indices, results, backend_log>>

embedVars == <<max_length, embeddings, actual_seq_len, position_embeddings,
               pe_pc>>

batchVars == <<data_y, data_status, forward_pred>>

stepVars == <<batchVars, model_threshold, l1_loss_c0, applied,
              trainable_variables, loss_tracker,
              mae_metric, msle_metric, train_out, test_out, step_result>>

positionVars == <<pos_max_length, pos_pc, pos_rows>>

blockVars == <<blk_hidden, blk_heads, blk_d_k, blk_pc>>

layerVars == <<positionVars, blockVars>>

filterVars == <<flt_on_events, flt_off_events, flt_min_off, flt_min_on, flt_on,
                flt_off, flt_pc>>

twinVars == <<twin_pc, twin_indices, twin_samples, twin_targets, twin_status>>

\* What the actions of one component leave alone.
nonStatusVars == <<windowVars, inferVars, embedVars, stepVars, layerVars,
                  filterVars, twinVars>>
nonWindowVars == <<statusVars, inferVars, embedVars, stepVars, layerVars,
                  filterVars, twinVars>>
nonInferVars == <<statusVars, embedVars, stepVars, layerVars,
                  filterVars, twinVars>>
nonEmbedVars == <<statusVars, windowVars, inferVars, stepVars, layerVars,
                  filterVars, twinVars>>
nonStepVars == <<statusVars, windowVars, inferVars, embedVars, layerVars,
                  filterVars, twinVars>>
nonFilterVars == <<statusVars, windowVars, inferVars, embedVars, stepVars,
                   layerVars, twinVars>>
nonTwinVars == <<statusVars, windowVars, inferVars, embedVars, stepVars,
                 layerVars, filterVars>>
nonLayerVars == <<statusVars, windowVars, inferVars, embedVars, stepVars,
                  filterVars, twinVars>>

vars == <<statusVars, windowVars, inferVars, embedVars, stepVars, layerVars,
          filterVars, twinVars>>

\* No second provider is built.
TwinIdle ==
    /\ twin_pc = "idle"
    /\ twin_indices = <<>>
    /\ twin_samples = <<>>
    /\ twin_targets = <<>>
    /\ twin_status = <<>>

\* No event arrays are being filtered.
FilterIdle ==
    /\ flt_on_events = <<>>
    /\ flt_off_events = <<>>
    /\ flt_min_off = 0
    /\ flt_min_on = 0
    /\ flt_on = <<>>
    /\ flt_off = <<>>
    /\ flt_pc = "idle"

\* No layer is being constructed.
LayerIdle ==
    /\ pos_max_length = <<>>
    /\ pos_pc = "idle"
    /\ pos_rows = 0
    /\ blk_hidden = 0
    /\ blk_heads = 0
    /\ blk_d_k = 0
    /\ blk_pc = "idle"

\* tflite_infer is not running.
InferIdle ==
    /\ input_details = <<>>
    /\ output_details = <<>>
    /\ num_eval = 0
    /\ eval_offset = 0
    /\ infer_pc = "idle"
    /\ samples_per_batch = 0
    /\ eval_indices = <<>>
    /\ results = <<>>
    /\ backend_log = <<>>

\* No position embedding layer is in use.
EmbedIdle ==
    /\ max_length = 0
    /\ embeddings = <<>>
    /\ actual_seq_len = 0
    /\ position_embeddings = <<>>
    /\ pe_pc = "idle"

\* No model is being fitted.
StepIdle ==
    /\ data_y = <<>>
    /\ data_status = <<>>
    /\ forward_pred = <<>>
    /\ model_threshold = 0
    /\ l1_loss_c0 = 0
    /\ applied = 0
    /\ trainable_variables = <<>>
    /\ loss_tracker = <<>>
    /\ mae_metric = <<>>
    /\ msle_metric = <<>>
    /\ train_out = <<>>
    /\ test_out = <<>>
    /\ step_result = <<>>

-----------------------------------------------------------------------------
(* Bounds of the model.                                                    *)

\* Every trace of at most MaxLen samples is an input.
MaxLen == 10
\* Traces built from at most MaxRuns alternating runs are inputs as well.
MaxRuns == 3

\* Python's None, where a value is optional; a value v that is present is
\* <<v>>.
None == <<>>

-----------------------------------------------------------------------------
(* Parameters (common.py).                                                 *)

SAMPLE_PERIOD == 8

Appliances == {"kettle", "microwave", "fridge", "dishwasher", "washingmachine"}

params_appliance ==
    [kettle |->
        [window_length |-> 599, on_power_threshold |-> 2000,
         max_on_power |-> 3100, min_on_duration |-> 12, min_off_duration |-> 0],
     microwave |->
        [window_length |-> 599, on_power_threshold |-> 200,
         max_on_power |-> 3000, min_on_duration |-> 12, min_off_duration |-> 30],
     fridge |->
        [window_length |-> 599, on_power_threshold |-> 50,
         max_on_power |-> 400, min_on_duration |-> 60, min_off_duration |-> 12],
     dishwasher |->
        [window_length |-> 599, on_power_threshold |-> 10,
         max_on_power |-> 2500, min_on_duration |-> 1800, min_off_duration |-> 1800],
     washingmachine |->
        [window_length |-> 599, on_power_threshold |-> 20,
         max_on_power |-> 2500, min_on_duration |-> 1800, min_off_duration |-> 160]]

-----------------------------------------------------------------------------
(* numpy / Python primitives used by compute_status.                       *)

Min(a, b) == IF a <= b THEN a ELSE b
Max(a, b) == IF a >= b THEN a ELSE b

\* The elements of a finite set of integers in ascending order.
Ascending(S) ==
    [k \in 1..Cardinality(S) |->
        CHOOSE v \in S : Cardinality({w \in S : w <= v}) = k]

\* np.insert(arr, pos, value), pos a 0-based position in 0..arr.size.
np_insert(arr, pos, value) ==
    SubSeq(arr, 1, pos) \o <<value>> \o SubSeq(arr, pos + 1, Len(arr))

\* np.roll(arr, -1): every element moves one place to the left, the first
\* one wraps around to the end.
np_roll_left(arr) ==
    [k \in 1..Len(arr) |-> arr[(k % Len(arr)) + 1]]

\* arr[mask], mask a boolean array of the same length.
bool_index(arr, mask) ==
    LET kept == Ascending({k \in 1..Len(arr) : mask[k]})
    IN  [j \in 1..Len(kept) |-> arr[kept[j]]]

\* Python's lst[a:b] = vals on a list (0 <= a): the bounds are clamped to the
\* list and an end before the start is moved to the start.
slice_assign(lst, a, b, vals) ==
    LET lo == Min(a, Len(lst))
        hi == Max(lo, Min(b, Len(lst)))
    IN  SubSeq(lst, 1, lo) \o vals \o SubSeq(lst, hi + 1, Len(lst))

\* [v] * n (the empty list when n <= 0).
repeat(v, n) == [i \in 1..n |-> v]

-----------------------------------------------------------------------------
(* compute_status, statement by statement.                                 *)

\* Mutant: the durations rounded down, a // b.
ceildiv_floor(a, b) == a \div b

\* def ceildiv(a, b): return -(a // -b)
ceildiv(a, b) == -(a \div (-b))

threshold(appl) == params_appliance[appl].on_power_threshold

min_on_duration(appl) ==
    ceildiv(params_appliance[appl].min_on_duration, SAMPLE_PERIOD)

min_off_duration(appl) ==
    ceildiv(params_appliance[appl].min_off_duration, SAMPLE_PERIOD)

\* initial_status = appliance_power.copy() >= threshold
apply_threshold(power, thr) == [i \in 1..Len(power) |-> power[i] >= thr]

\* status_diff = np.diff(initial_status): on booleans, a[i+1] != a[i].
np_diff(st) == [i \in 1..(Len(st) - 1) |-> st[i + 1] # st[i]]

\* events_idx = np.array(status_diff.nonzero()).squeeze(); events_idx += 1
find_events(st) ==
    LET status_diff == np_diff(st)
        nonzero == Ascending({i - 1 : i \in {j \in 1..Len(status_diff) : status_diff[j]}})
    IN  [k \in 1..Len(nonzero) |-> nonzero[k] + 1]

\* Mutant: the last adjustment tests the first sample, initial_status[0].
adjust_last_tests_first(ev, st) ==
    IF st[1] THEN np_insert(ev, Len(ev), Len(st)) ELSE ev

\* if initial_status[0]: events_idx = np.insert(events_idx, 0, 0)
adjust_first(ev, st) == IF st[1] THEN np_insert(ev, 0, 0) ELSE ev

\* if initial_status[-1]: np.insert(events_idx, events_idx.size, initial_status.size)
adjust_last(ev, st) ==
    IF st[Len(st)] THEN np_insert(ev, Len(ev), Len(st)) ELSE ev

adjust_events(ev, st) == adjust_last(adjust_first(ev, st), st)

\* events_idx.reshape((-1, 2)) succeeds only on an even number of elements.
can_reshape(ev) == Len(ev) % 2 = 0

\* events_idx[:, 0] and events_idx[:, 1]
column_on(ev) == [k \in 1..(Len(ev) \div 2) |-> ev[2 * k - 1]]
column_off(ev) == [k \in 1..(Len(ev) \div 2) |-> ev[2 * k]]

\* The value inserted in front of off_duration.
FIRST_OFF_DURATION == 1000

\* Mutant: 0 is inserted in front of off_duration.
off_duration_zero_first(on, off) ==
    np_insert([k \in 1..(Len(on) - 1) |-> on[k + 1] - off[k]], 0, 0)

\* off_duration = on_events[1:] - off_events[:-1]
\* off_duration = np.insert(off_duration, 0, 1000)
off_duration(on, off) ==
    np_insert([k \in 1..(Len(on) - 1) |-> on[k + 1] - off[k]], 0, FIRST_OFF_DURATION)

\* on_events[off_duration > min_off_duration]
off_filter_on(on, off, minoff) ==
    LET od == off_duration(on, off)
    IN  bool_index(on, [k \in 1..Len(od) |-> od[k] > minoff])

\* Mutant: off_duration is not rolled, off_events[off_duration > min_off_duration].
off_filter_off_not_rolled(on, off, minoff) ==
    LET od == off_duration(on, off)
    IN  bool_index(off, [k \in 1..Len(od) |-> od[k] > minoff])

\* off_events[np.roll(off_duration, -1) > min_off_duration]
off_filter_off(on, off, minoff) ==
    LET od == np_roll_left(off_duration(on, off))
    IN  bool_index(off, [k \in 1..Len(od) |-> od[k] > minoff])

\* Mutant: the comparison is strict, on_duration > min_on_duration.
on_duration_mask_strict(on, off, minon) ==
    [k \in 1..Len(on) |-> off[k] - on[k] > minon]

\* Mutant: the duration counts the off-event's sample, off - on + 1.
on_duration_mask_inclusive(on, off, minon) ==
    [k \in 1..Len(on) |-> off[k] - on[k] + 1 >= minon]

\* on_duration = off_events - on_events; on_duration >= min_on_duration
on_duration_mask(on, off, minon) ==
    [k \in 1..Len(on) |-> off[k] - on[k] >= minon]

\* Mutant: one 1 too many is written, status[on:off] = [1] * (off - on + 1).
RECURSIVE fill_status_long(_, _, _, _)
fill_status_long(lst, on, off, k) ==
    IF k > Min(Len(on), Len(off))
    THEN lst
    ELSE fill_status_long(
             slice_assign(lst, on[k], off[k], repeat(1, off[k] - on[k] + 1)),
             on, off, k + 1)

\* for on, off in zip(on_events, off_events): status[on:off] = [1] * (off - on)
RECURSIVE fill_status(_, _, _, _)
fill_status(lst, on, off, k) ==
    IF k > Min(Len(on), Len(off))
    THEN lst
    ELSE fill_status(slice_assign(lst, on[k], off[k], repeat(1, off[k] - on[k])),
                     on, off, k + 1)

\* Mutant: the off-event's sample is included, status[on:off + 1].
generate_status_inclusive(size, on, off) ==
    fill_status(repeat(0, size), on, [k \in 1..Len(off) |-> off[k] + 1], 1)

\* status = [0] * appliance_power.size, then the loop above.
generate_status(size, on, off) == fill_status(repeat(0, size), on, off, 1)

-----------------------------------------------------------------------------
(* Inputs of compute_status.                                               *)

\* compute_status reads a sample only through `>= threshold`: a sample is
\* drawn just below the threshold or exactly at it.
PowerLevels(appl) == {threshold(appl) - 1, threshold(appl)}

ShortTraces(appl) == UNION {[1..n -> PowerLevels(appl)] : n \in 0..MaxLen}

\* Run lengths around the appliance's two minimum durations (in samples).
RunLengths(appl) ==
    {x \in {min_on_duration(appl) - 1, min_on_duration(appl),
            min_off_duration(appl), min_off_duration(appl) + 1} : x >= 1}

RECURSIVE expand_runs(_, _, _, _)
expand_runs(lens, k, on, appl) ==
    IF k > Len(lens)
    THEN <<>>
    ELSE repeat(IF on THEN threshold(appl) ELSE threshold(appl) - 1, lens[k])
         \o expand_runs(lens, k + 1, ~on, appl)

RunTraces(appl) ==
    {expand_runs(lens, 1, first, appl) :
        lens \in UNION {[1..r -> RunLengths(appl)] : r \in 1..MaxRuns},
        first \in BOOLEAN}

Traces(appl) == ShortTraces(appl) \cup RunTraces(appl)

\* A produced status list fed back as a power trace: as it is ("binary",
\* np.array(status)), or as watts, max_on_power where the status is 1.
feed_back(st, mode, appl) ==
    IF mode = "binary"
    THEN st
    ELSE [i \in 1..Len(st) |->
            IF st[i] = 1 THEN params_appliance[appl].max_on_power ELSE 0]

-----------------------------------------------------------------------------
(* compute_status as a state machine.                                      *)

StatusInit ==
    /\ appliance \in Appliances
    /\ appliance_power \in Traces(appliance)
    /\ pc = "start"
    /\ initial_status = <<>>
    /\ events_idx = <<>>
    /\ on_events = <<>>
    /\ off_events = <<>>
    /\ status = <<>>
    /\ feed = "trace"
    /\ first_power = appliance_power
    /\ first_status = <<>>

\* initial_status = appliance_power.copy() >= threshold
ApplyThreshold ==
    /\ pc = "start"
    /\ initial_status' = apply_threshold(appliance_power, threshold(appliance))
    /\ pc' = "thresholded"
    /\ UNCHANGED <<appliance, appliance_power, events_idx, on_events, off_events,
                   status, feed, first_power, first_status>>
    /\ UNCHANGED nonStatusVars

\* status_diff, events_idx
FindEvents ==
    /\ pc = "thresholded"
    /\ events_idx' = find_events(initial_status)
    /\ pc' = "events"
    /\ UNCHANGED <<appliance, appliance_power, initial_status, on_events,
                   off_events, status, feed, first_power, first_status>>
    /\ UNCHANGED nonStatusVars

\* The two boundary insertions; initial_status[0] raises IndexError on an
\* empty trace.
AdjustEvents ==
    /\ pc = "events"
    /\ IF Len(initial_status) = 0
       THEN /\ pc' = "failed"
            /\ UNCHANGED events_idx
       ELSE /\ events_idx' = adjust_events(events_idx, initial_status)
            /\ pc' = "adjusted"
    /\ UNCHANGED <<appliance, appliance_power, initial_status, on_events,
                   off_events, status, feed, first_power, first_status>>
    /\ UNCHANGED nonStatusVars

\* reshape((-1, 2)) raises ValueError on an odd number of events; the assert
\* that follows compares two columns of one array.
SeparateEvents ==
    /\ pc = "adjusted"
    /\ IF can_reshape(events_idx)
       THEN /\ on_events' = column_on(events_idx)
            /\ off_events' = column_off(events_idx)
            /\ pc' = IF Len(on_events') = Len(off_events')
                     THEN "separated" ELSE "failed"
       ELSE /\ pc' = "failed"
            /\ UNCHANGED <<on_events, off_events>>
    /\ UNCHANGED <<appliance, appliance_power, initial_status, events_idx,
                   status, feed, first_power, first_status>>
    /\ UNCHANGED nonStatusVars

\* if len(on_events) > 0: is false, both filters are skipped.
SkipFilters ==
    /\ pc = "separated"
    /\ Len(on_events) = 0
    /\ pc' = "on_filtered"
    /\ UNCHANGED <<appliance, appliance_power, initial_status, events_idx,
                   on_events, off_events, status, feed, first_power, first_status>>
    /\ UNCHANGED nonStatusVars

\* The off-duration filter.
OffDurationFilter ==
    /\ pc = "separated"
    /\ Len(on_events) > 0
    /\ on_events' = off_filter_on(on_events, off_events, min_off_duration(appliance))
    /\ off_events' = off_filter_off(on_events, off_events, min_off_duration(appliance))
    /\ pc' = "off_filtered"
    /\ UNCHANGED <<appliance, appliance_power, initial_status, events_idx,
                   status, feed, first_power, first_status>>
    /\ UNCHANGED nonStatusVars

\* The on-duration filter and the assert after it. off_events - on_events
\* and the boolean indexing raise on arrays of different lengths.
OnDurationFilter ==
    /\ pc = "off_filtered"
    /\ IF Len(on_events) = Len(off_events)
       THEN LET mask == on_duration_mask(on_events, off_events,
                                         min_on_duration(appliance))
            IN  /\ on_events' = bool_index(on_events, mask)
                /\ off_events' = bool_index(off_events, mask)
                /\ pc' = IF Len(on_events') = Len(off_events')
                         THEN "on_filtered" ELSE "failed"
       ELSE /\ pc' = "failed"
            /\ UNCHANGED <<on_events, off_events>>
    /\ UNCHANGED <<appliance, appliance_power, initial_status, events_idx,
                   status, feed, first_power, first_status>>
    /\ UNCHANGED nonStatusVars

\* Generate final status; return status.
GenerateStatus ==
    /\ pc = "on_filtered"
    /\ status' = generate_status(Len(appliance_power), on_events, off_events)
    /\ first_status' = IF feed = "trace" THEN status' ELSE first_status
    /\ pc' = "done"
    /\ UNCHANGED <<appliance, appliance_power, initial_status, events_idx,
                   on_events, off_events, feed, first_power>>
    /\ UNCHANGED nonStatusVars

\* The caller labels the returned sequence again, for the same appliance.
Relabel ==
    /\ pc = "done"
    /\ feed = "trace"
    /\ \E mode \in {"binary", "watts"} :
          /\ feed' = mode
          /\ appliance_power' = feed_back(status, mode, appliance)
    /\ pc' = "start"
    /\ initial_status' = <<>>
    /\ events_idx' = <<>>
    /\ on_events' = <<>>
    /\ off_events' = <<>>
    /\ status' = <<>>
    /\ UNCHANGED <<appliance, first_power, first_status>>
    /\ UNCHANGED nonStatusVars

StatusNext ==
    \/ ApplyThreshold
    \/ FindEvents
    \/ AdjustEvents
    \/ SeparateEvents
    \/ SkipFilters
    \/ OffDurationFilter
    \/ OnDurationFilter
    \/ GenerateStatus
    \/ Relabel

\* The window provider is not in use while a trace is labeled.
WindowIdle ==
    /\ X = <<>>
    /\ y = <<>>
    /\ activations = <<>>
    /\ batch_size = 1
    /\ window_length = 1
    /\ train = FALSE
    /\ shuffle = FALSE
    /\ p = None
    /\ wg_pc = "idle"
    /\ total_samples = 0
    /\ window_center = 0
    /\ num_samples = 0
    /\ indices = <<>>
    /\ samples = <<>>
    /\ targets = <<>>
    /\ self_status = <<>>
    /\ len_result = <<>>
    /\ item_index = 0
    /\ rows = <<>>
    /\ returned = <<>>

Init ==
    StatusInit /\ WindowIdle /\ InferIdle /\ EmbedIdle /\ StepIdle /\ LayerIdle
    /\ FilterIdle /\ TwinIdle

Next == StatusNext

Spec == Init /\ [][Next]_vars

-----------------------------------------------------------------------------
(* Bounds of the window provider's model.                                  *)

\* Datasets of 1..MaxTotal samples, windows of 1..MaxWindow samples and
\* batches of 1..MaxBatch windows are inputs, next to the sizes named below.
MaxTotal == 6
MaxWindow == 4
MaxBatch == 3
\* rng.shuffle yields every permutation of at most MaxPermuted indices; of a
\* longer array it yields the array itself or its reverse.
MaxPermuted == 3
\* Every batch of a provider of at most MaxServed batches is asked for.
MaxServed == 6
\* Datasets of at most MaxMasked samples are also given to a provider that
\* masks (p is not None).
MaxMasked == 3

-----------------------------------------------------------------------------
(* WindowGenerator, statement by statement.                                *)

\* Python's seq[a:b] for 0 <= a, 0 <= b: both bounds are clamped to the
\* sequence.
py_slice(seq, a, b) == SubSeq(seq, Min(a, Len(seq)) + 1, Min(b, Len(seq)))

\* np.arange(n): empty when n <= 0.
np_arange(n) == [i \in 1..n |-> i - 1]

\* Mutant: the last index of the window, window_length - 1.
window_end_of(wl) == wl - 1

\* Mutant: int(0.5 * window_length).
window_half_of(wl) == wl \div 2

\* self.window_center = int(0.5 * (window_length - 1)); int() truncates
\* toward zero.
window_center_of(wl) ==
    IF wl - 1 >= 0 THEN (wl - 1) \div 2 ELSE -((1 - wl) \div 2)

\* Mutant: every sample starts a window, partial windows included.
num_samples_unadjusted(total, wl) == total

\* Mutant: the last full window is counted, total_samples - window_length + 1.
num_samples_plus_one(total, wl) == total - wl + 1

\* self.num_samples = self.total_samples - window_length
num_samples_of(total, wl) == total - wl

\* The permutations rng.shuffle can leave in the array.
Shuffles(arr) ==
    LET n == Len(arr)
    IN  IF n <= MaxPermuted
        THEN {[i \in 1..n |-> arr[f[i]]] :
                f \in {g \in [1..n -> 1..n] :
                         \A a, b \in 1..n : a # b => g[a] # g[b]}}
        ELSE {arr, [i \in 1..n |-> arr[n + 1 - i]]}

\* Mutant: the array is shuffled whatever self.shuffle is.
shuffle_always(flag, arr) == Shuffles(arr)

\* if self.shuffle: self.rng.shuffle(self.indices)
shuffle_if(flag, arr) == IF flag THEN Shuffles(arr) ELSE {arr}

\* Mutant: whole batches only, self.num_samples // self.batch_size.
wg_len_floor(num, bs) == num \div bs

\* __len__: int(np.ceil(self.num_samples / self.batch_size))
wg_len(num, bs) == -((-num) \div bs)

\* MASK_TOKEN = -1.0
MASK_TOKEN == -1

\* Mutant: a position that is not corrupted keeps its target.
masked_position_keeps_target(x, yv, act, pp, prob1, prob2, noise) ==
    IF prob1 < pp
    THEN [sample |-> IF prob2 < 80 THEN MASK_TOKEN
                     ELSE IF prob2 < 90 THEN noise ELSE x,
          target |-> yv,
          status |-> act]
    ELSE [sample |-> x, target |-> yv, status |-> MASK_TOKEN]

\* One pass of the masking loop, for the position that holds (x, yv, act):
\* prob1 and prob2 are the two rng.random() draws and pp is p, all three in
\* percent; noise is what rng.normal() returns.
masked_position(x, yv, act, pp, prob1, prob2, noise) ==
    IF prob1 < pp
    THEN [sample |-> IF prob2 < 80 THEN MASK_TOKEN
                     ELSE IF prob2 < 90 THEN noise ELSE x,
          target |-> yv,
          status |-> act]
    ELSE [sample |-> x, target |-> MASK_TOKEN, status |-> MASK_TOKEN]

\* Mutant: the slice starts one place late.
rows_of_one_late(idx, index, bs) ==
    py_slice(idx, index * bs + 1, (index + 1) * bs + 1)

\* rows = self.indices[index * self.batch_size : (index + 1) * self.batch_size]
rows_of(idx, index, bs) == py_slice(idx, index * bs, (index + 1) * bs)

\* self.samples[row : row + self.window_length]
window_of(smp, row, wl) == py_slice(smp, row, row + wl)

\* np.array([...]).reshape(-1, self.window_length, 1): every sample in a
\* channel axis of its own.
wsam_of(smp, rws, wl) ==
    [b \in 1..Len(rws) |->
        LET w == window_of(smp, rws[b], wl)
        IN  [j \in 1..Len(w) |-> <<w[j]>>]]

\* The reshape needs every window to hold window_length samples.
can_reshape_windows(smp, rws, wl) ==
    \A b \in 1..Len(rws) : Len(window_of(smp, rws[b], wl)) = wl

\* [arr[row + self.window_center] for row in rows]
centered(arr, rws, center) == [b \in 1..Len(rws) |-> arr[rws[b] + center + 1]]

\* arr[row + self.window_center] raises IndexError past the end.
can_center(arr, rws, center) ==
    \A b \in 1..Len(rws) : rws[b] + center + 1 \in 1..Len(arr)

-----------------------------------------------------------------------------
(* Inputs of the window provider.                                          *)

\* The window length of every appliance profile ("window_length": 599).
PROFILE_WINDOW == 599
\* The size of a dataset long enough for windows of that length.
LongTotal == 1000

Shapes ==
    ((1..MaxTotal) \X (1..MaxWindow)) \cup {<<LongTotal, PROFILE_WINDOW>>}

BatchSizes == 1..MaxBatch

\* The batches asked of a provider of n batches: each of them, or the first,
\* the middle and the last one when there are more than MaxServed.
BatchIndexes(n) ==
    IF n <= MaxServed THEN 0..(n - 1) ELSE {0, n \div 2, n - 1}

\* A dataset of n rows whose aggregate and appliance columns differ from one
\* row to the next; the status column holds runs of two samples.
aggregate_of(n) == [i \in 1..n |-> 500 + i]
appliance_of(n) == [i \in 1..n |-> 2 * i]
activation_of(n) == [i \in 1..n |-> (i \div 2) % 2]

\* The proportions p of a masking provider, in percent.
MaskedP == {<<0>>, <<20>>, <<100>>}
\* What rng.random() returns, in percent, and what rng.normal() returns.
Draws == {10, 85, 95}
NoiseValues == {7}

\* What the masking loop can leave at position i (1-based) of the dataset.
MaskedAt(i, pp) ==
    {masked_position(X[i], y[i], activations[i], pp, d1, d2, nz) :
        d1 \in Draws, d2 \in Draws, nz \in NoiseValues}

\* What the masking loop can leave at the first n positions.
RECURSIVE MaskedRuns(_, _)
MaskedRuns(n, pp) ==
    IF n = 0
    THEN {<<>>}
    ELSE {Append(run, m) : run \in MaskedRuns(n - 1, pp), m \in MaskedAt(n, pp)}

\* No trace is labeled while the window provider is in use.
StatusIdle ==
    /\ appliance = "kettle"
    /\ appliance_power = <<>>
    /\ pc = "idle"
    /\ initial_status = <<>>
    /\ events_idx = <<>>
    /\ on_events = <<>>
    /\ off_events = <<>>
    /\ status = <<>>
    /\ feed = "trace"
    /\ first_power = <<>>
    /\ first_status = <<>>

-----------------------------------------------------------------------------
(* WindowGenerator as a state machine.                                     *)

WindowInit ==
    /\ \E shape \in Shapes :
          /\ X = aggregate_of(shape[1])
          /\ y = appliance_of(shape[1])
          /\ activations = activation_of(shape[1])
          /\ window_length = shape[2]
    /\ batch_size \in BatchSizes
    /\ train \in BOOLEAN
    /\ shuffle \in BOOLEAN
    /\ p \in {None} \cup (IF Len(X) <= MaxMasked THEN MaskedP ELSE {})
    /\ wg_pc = "new"
    /\ total_samples = 0
    /\ window_center = 0
    /\ num_samples = 0
    /\ indices = <<>>
    /\ samples = <<>>
    /\ targets = <<>>
    /\ self_status = <<>>
    /\ len_result = <<>>
    /\ item_index = 0
    /\ rows = <<>>
    /\ returned = <<>>

\* WindowGenerator.__init__, the masking loop and the initial shuffle
\* included.
Construct ==
    /\ wg_pc = "new"
    /\ total_samples' = Len(X)
    /\ window_center' = window_center_of(window_length)
    /\ num_samples' = num_samples_of(total_samples', window_length)
    /\ IF p # None
       THEN \E run \in MaskedRuns(total_samples', p[1]) :
                /\ samples' = [i \in 1..Len(run) |-> run[i].sample]
                /\ targets' = [i \in 1..Len(run) |-> run[i].target]
                /\ self_status' = [i \in 1..Len(run) |-> run[i].status]
       ELSE /\ samples' = X
            /\ targets' = y
            /\ self_status' = activations
    /\ indices' \in shuffle_if(shuffle, np_arange(num_samples'))
    /\ wg_pc' = "ready"
    /\ UNCHANGED <<datasetVars, argVars, len_result, item_index, rows,
                   returned>>
    /\ UNCHANGED nonWindowVars

\* WindowGenerator.on_epoch_end
OnEpochEnd ==
    /\ wg_pc \in {"ready", "served"}
    /\ indices' \in shuffle_if(shuffle, indices)
    /\ UNCHANGED <<datasetVars, argVars, attrVars, wg_pc, len_result,
                   item_index, rows, returned>>
    /\ UNCHANGED nonWindowVars

\* WindowGenerator.__len__
CallLen ==
    /\ wg_pc \in {"ready", "served"}
    /\ len_result' = <<wg_len(num_samples, batch_size)>>
    /\ UNCHANGED <<datasetVars, argVars, attrVars, wg_pc, indices,
                   item_index, rows, returned>>
    /\ UNCHANGED nonWindowVars

\* WindowGenerator.__getitem__(index)
GetItemAt(index) ==
    /\ item_index' = index
    /\ rows' = rows_of(indices, index, batch_size)
    /\ IF ~can_reshape_windows(samples, rows', window_length)
          \/ (train /\ ~can_center(targets, rows', window_center))
          \/ (train /\ ~can_center(self_status, rows', window_center))
       THEN /\ wg_pc' = "failed"
            /\ UNCHANGED returned
       ELSE /\ wg_pc' = "served"
            /\ returned' =
                  IF train
                  THEN <<wsam_of(samples, rows', window_length),
                         centered(targets, rows', window_center),
                         centered(self_status, rows', window_center)>>
                  ELSE <<wsam_of(samples, rows', window_length)>>
    /\ UNCHANGED <<datasetVars, argVars, attrVars, indices, len_result>>

\* The caller asks for one of the batches __len__ counts.
GetItem ==
    /\ wg_pc \in {"ready", "served"}
    /\ \E index \in BatchIndexes(wg_len(num_samples, batch_size)) :
          GetItemAt(index)
    /\ UNCHANGED nonWindowVars

WindowNext ==
    \/ Construct
    \/ OnEpochEnd
    \/ CallLen
    \/ GetItem

InitWindow ==
    WindowInit /\ StatusIdle /\ InferIdle /\ EmbedIdle /\ StepIdle /\ LayerIdle
    /\ FilterIdle /\ TwinIdle

SpecWindow == InitWindow /\ [][WindowNext]_vars

-----------------------------------------------------------------------------
(* Vocabulary of the properties of compute_status. Nothing below is used   *)
(* by the actions: runs and durations are read off the input trace and the *)
(* returned list directly.                                                 *)

\* A duration in seconds as a number of samples, rounded up.
SamplesOf(seconds) == (seconds + SAMPLE_PERIOD - 1) \div SAMPLE_PERIOD

MinOnSamples == SamplesOf(params_appliance[appliance].min_on_duration)
MinOffSamples == SamplesOf(params_appliance[appliance].min_off_duration)

\* Sample i (0-based) of the input is at or above the appliance's threshold.
InputOn ==
    [i \in 1..Len(appliance_power) |->
        appliance_power[i] >= params_appliance[appliance].on_power_threshold]

\* Sample i (0-based) of the returned list is 1.
OutputOn == [i \in 1..Len(status) |-> status[i] = 1]

\* The maximal runs of TRUE of a boolean array, as half-open intervals
\* <<first, one past last>> of 0-based indices.
RunsOf(b) ==
    LET starts == {i \in 0..(Len(b) - 1) : b[i + 1] /\ (i = 0 \/ ~b[i])}
        ends == {j \in 1..Len(b) : b[j] /\ (j = Len(b) \/ ~b[j + 1])}
    IN  {<<a, CHOOSE e \in ends : e > a /\ \A f \in ends : f > a => e <= f>> :
            a \in starts}

RunLen(r) == r[2] - r[1]

\* r2 is the run that follows r1 in the set of runs R.
NextRun(R, r1, r2) ==
    /\ r1[2] < r2[1]
    /\ \A r \in R : ~(r1[2] < r[1] /\ r[1] < r2[1])

\* Every gap between r and another run of R is longer than the minimum-off
\* duration: no neighbour is merged with r.
Isolated(R, r) ==
    \A q \in R :
        /\ q[2] < r[1] => r[1] - q[2] > MinOffSamples
        /\ r[2] < q[1] => q[1] - r[2] > MinOffSamples

Returned == pc = "done" /\ Len(appliance_power) > 0

\* C1: in the returned status every maximal run of 1s has at least
\* min_on_duration samples and every gap of 0s between two runs of 1s has at
\* least min_off_duration samples.
C1_RunsAndGapsRespectMinimums ==
    Returned =>
        LET R == RunsOf(OutputOn)
        IN  /\ \A r \in R : RunLen(r) >= MinOnSamples
            /\ \A r1, r2 \in R :
                  r1[2] < r2[1] => r2[1] - r1[2] >= MinOffSamples

\* Two runs are returned, and the labeler changed the thresholded input.
C1_Witness ==
    /\ Returned
    /\ Cardinality(RunsOf(OutputOn)) >= 2
    /\ OutputOn # InputOn
    /\ MinOffSamples >= 1

\* C2: two consecutive above-threshold runs of the input separated by a gap
\* shorter than min_off_duration are merged: every sample of the first run,
\* of the gap and of the second run has the same returned status.
C2_ShortGapMerged ==
    Returned =>
        LET R == RunsOf(InputOn)
        IN  \A r1, r2 \in R :
                (NextRun(R, r1, r2) /\ r2[1] - r1[2] < MinOffSamples) =>
                    \A i \in r1[1]..(r2[2] - 1) : status[i + 1] = status[r1[1] + 1]

\* Two input runs with a short gap between them come back as one on-run.
C2_Witness ==
    /\ Returned
    /\ \E r1, r2 \in RunsOf(InputOn) :
          /\ NextRun(RunsOf(InputOn), r1, r2)
          /\ r2[1] - r1[2] < MinOffSamples
          /\ \A i \in r1[1]..(r2[2] - 1) : status[i + 1] = 1

\* C3 as stated: every input run shorter than min_on_duration has status 0
\* on all of its samples.
C3_ShortRunDropped ==
    Returned =>
        \A r \in RunsOf(InputOn) :
            RunLen(r) < MinOnSamples =>
                \A i \in r[1]..(r[2] - 1) : status[i + 1] = 0

\* C3 amended: every input run shorter than min_on_duration that is merged
\* with no neighbour (each gap to another run exceeds min_off_duration) has
\* status 0 on all of its samples.
C3_IsolatedShortRunDropped ==
    Returned =>
        LET R == RunsOf(InputOn)
        IN  \A r \in R :
                (RunLen(r) < MinOnSamples /\ Isolated(R, r)) =>
                    \A i \in r[1]..(r[2] - 1) : status[i + 1] = 0

\* An isolated short run is dropped while another run of the trace is kept.
C3_Witness ==
    /\ Returned
    /\ \E r \in RunsOf(InputOn) :
          RunLen(r) < MinOnSamples /\ Isolated(RunsOf(InputOn), r)
    /\ \E i \in 1..Len(status) : status[i] = 1

\* C4: a trace whose single above-threshold run has exactly min_on_duration
\* samples comes back with status 1 on exactly that run.
C4_ExactMinOnRunKept ==
    Returned =>
        \A r \in RunsOf(InputOn) :
            (RunsOf(InputOn) = {r} /\ RunLen(r) = MinOnSamples) =>
                OutputOn = InputOn

\* The single run has exactly min_on_duration samples and lies strictly
\* inside the array.
C4_Witness ==
    /\ Returned
    /\ \E r \in RunsOf(InputOn) :
          /\ RunsOf(InputOn) = {r}
          /\ RunLen(r) = MinOnSamples
          /\ r[1] > 0
          /\ r[2] < Len(appliance_power)
    /\ MinOnSamples > MaxLen

\* C5 as stated: the returned 0/1 sequence, labeled again for the same
\* appliance, comes back unchanged.
C5_RelabelBinaryIdempotent ==
    (pc = "done" /\ feed = "binary") => status = first_status

\* C5 amended: labeling is idempotent on the on/off pattern (the returned
\* sequence fed back as watts, max_on_power where it is 1, comes back as the
\* same sequence); the 0/1 sequence itself is below every threshold and
\* comes back all zero.
C5_RelabelIdempotentInWatts ==
    /\ (pc = "done" /\ feed = "watts") => status = first_status
    /\ (pc = "done" /\ feed = "binary") =>
            status = [i \in 1..Len(first_status) |-> 0]

\* A relabeling in watts of a result that has a run and that differs from
\* the thresholded first trace.
C5_Witness ==
    /\ pc = "done"
    /\ feed = "watts"
    /\ \E i \in 1..Len(status) : status[i] = 1
    /\ \E i \in 1..Len(first_power) :
          (first_power[i] >= params_appliance[appliance].on_power_threshold)
              # (first_status[i] = 1)

\* C6: the returned list has the length of the input, holds only 0 and 1,
\* and is 1 exactly on the indices inside [on, off) of a surviving pair.
C6_StatusIsUnionOfSurvivingPairs ==
    Returned =>
        /\ Len(status) = Len(appliance_power)
        /\ \A i \in 0..(Len(status) - 1) :
              /\ status[i + 1] \in {0, 1}
              /\ status[i + 1] = 1 <=>
                    \E k \in 1..Len(on_events) :
                        on_events[k] <= i /\ i < off_events[k]

\* Two pairs survive, the last one ending one past the end of the array.
C6_Witness ==
    /\ Returned
    /\ Len(on_events) >= 2
    /\ off_events[Len(off_events)] = Len(appliance_power)

\* C7 as stated: an input that is above threshold on every sample comes back
\* all ones, whatever its length.
C7_AlwaysOnKept ==
    (Returned /\ \A i \in 1..Len(InputOn) : InputOn[i]) =>
        \A i \in 1..Len(status) : status[i] = 1

\* C7 amended: an always-on input of at least min_on_duration samples comes
\* back all ones; a shorter one comes back all zeros.
C7_AlwaysOnKeptIfLongEnough ==
    (Returned /\ \A i \in 1..Len(InputOn) : InputOn[i]) =>
        /\ Len(status) = Len(appliance_power)
        /\ \A i \in 1..Len(status) :
              status[i] = IF Len(appliance_power) >= MinOnSamples THEN 1 ELSE 0

\* An always-on trace of an appliance with a non-zero minimum-off duration
\* is returned all ones.
C7_Witness ==
    /\ Returned
    /\ \A i \in 1..Len(InputOn) : InputOn[i]
    /\ \A i \in 1..Len(status) : status[i] = 1
    /\ MinOffSamples >= 1

\* C8: after the boundary adjustment the events of a non-empty trace pair
\* up: their number is even, they are strictly increasing inside 0..size,
\* the separated on/off columns hold all of them in order, and the call
\* fails only on an empty trace.
C8_EventsComeInPairs ==
    /\ pc = "failed" => Len(appliance_power) = 0
    /\ pc = "adjusted" =>
          /\ Len(events_idx) % 2 = 0
          /\ \A k \in 1..Len(events_idx) :
                /\ events_idx[k] \in 0..Len(appliance_power)
                /\ k > 1 => events_idx[k - 1] < events_idx[k]
    /\ pc = "separated" =>
          /\ Len(on_events) = Len(off_events)
          /\ Len(events_idx) = 2 * Len(on_events)
          /\ \A k \in 1..Len(on_events) :
                /\ on_events[k] = events_idx[2 * k - 1]
                /\ off_events[k] = events_idx[2 * k]
                /\ on_events[k] < off_events[k]
                /\ k > 1 => off_events[k - 1] < on_events[k]

\* Both implicit events were inserted and at least two pairs were separated.
C8_Witness ==
    /\ pc = "separated"
    /\ Len(on_events) >= 2
    /\ on_events[1] = 0
    /\ off_events[Len(off_events)] = Len(appliance_power)

-----------------------------------------------------------------------------
(* Properties of the window provider.                                      *)

Served == wg_pc = "served"

\* C9: every window served is the slice samples[row : row + window_length]
\* in order, and its target and status are the values at row +
\* floor((window_length - 1) / 2) (299 for a window of 599 samples); the
\* dataset's targets differ from row to row, so without masking, for a
\* window of three or more samples, the target served is not the one at
\* the window's first or last sample.
C9_WindowSliceAndCenteredTarget ==
    /\ (wg_pc \in {"ready", "served"} /\ window_length = 599) => window_center = 299
    /\ wg_pc # "failed"
    /\ Served =>
          /\ Len(returned[1]) = Len(rows)
          /\ \A b \in 1..Len(rows) :
                /\ Len(returned[1][b]) = window_length
                /\ \A j \in 0..(window_length - 1) :
                      returned[1][b][j + 1] = <<samples[rows[b] + j + 1]>>
          /\ Len(returned) = IF train THEN 3 ELSE 1
          /\ train =>
                \A b \in 1..Len(rows) :
                    LET center == rows[b] + ((window_length - 1) \div 2)
                    IN  /\ returned[2][b] = targets[center + 1]
                        /\ returned[3][b] = self_status[center + 1]
                        /\ (window_length >= 3 /\ p = None) =>
                              /\ returned[2][b] # targets[rows[b] + 1]
                              /\ returned[2][b] # targets[rows[b] + window_length]

\* A shuffled training batch of two or more windows of 599 samples.
C9_Witness ==
    /\ Served
    /\ train
    /\ window_length = 599
    /\ Len(rows) >= 2
    /\ rows[1] > rows[2]

\* C10 as stated: __len__ returns total_samples - window_length, whatever
\* the batch size.
C10_LenIsNumberOfWindows ==
    len_result # <<>> => len_result[1] = Len(X) - window_length

\* C10 amended: the number of windows num_samples is total_samples -
\* window_length (401 for 1000 samples and windows of 599), whatever the
\* batch size; __len__ returns the number of batches,
\* ceil(num_samples / batch_size), which is the number of windows when the
\* batch size is 1.
C10_NumSamplesAndLen ==
    /\ wg_pc \in {"ready", "served"} =>
          /\ total_samples = Len(X)
          /\ num_samples = Len(X) - window_length
          /\ (Len(X) = 1000 /\ window_length = 599) => num_samples = 401
    /\ len_result # <<>> =>
          /\ len_result[1] * batch_size >= num_samples
          /\ (len_result[1] - 1) * batch_size < num_samples
          /\ batch_size = 1 => len_result[1] = Len(X) - window_length

\* __len__ of a provider of 401 windows in batches of more than one window
\* returns fewer than 401.
C10_Witness ==
    /\ len_result # <<>>
    /\ Len(X) = 1000
    /\ window_length = 599
    /\ num_samples = 401
    /\ batch_size > 1
    /\ len_result[1] < 401

\* The number of batches that cover num windows, bs windows to a batch: one
\* batch starts at every bs-th window.
BatchesOf(num, bs) == Cardinality({k \in 0..(num - 1) : k % bs = 0})

\* C11: __len__ returns ceil(num_samples / batch_size) with num_samples =
\* total_samples - window_length; every batch served holds batch_size
\* windows, except the last one, which holds num_samples mod batch_size
\* windows when that is not zero.
C11_BatchCountAndBatchSizes ==
    /\ len_result # <<>> =>
          /\ num_samples = Len(X) - window_length
          /\ num_samples >= 0 => len_result[1] = BatchesOf(num_samples, batch_size)
          /\ num_samples < 0 => len_result[1] <= 0
    /\ Served =>
          LET last == BatchesOf(num_samples, batch_size) - 1
              rest == num_samples % batch_size
          IN  /\ item_index \in 0..last
              /\ Len(returned[1]) = Len(rows)
              /\ item_index < last => Len(rows) = batch_size
              /\ item_index = last =>
                    Len(rows) = IF rest # 0 THEN rest ELSE batch_size

\* The last of several batches was served and holds fewer windows than the
\* others.
C11_Witness ==
    /\ Served
    /\ len_result # <<>>
    /\ len_result[1] >= 2
    /\ item_index = len_result[1] - 1
    /\ Len(rows) = num_samples % batch_size
    /\ Len(rows) < batch_size

\* Position i (1-based) was corrupted: it keeps its true target and status.
Corrupted(i) ==
    /\ samples[i] \in {MASK_TOKEN, X[i]} \cup NoiseValues
    /\ targets[i] = y[i]
    /\ self_status[i] = activations[i]

\* Position i (1-based) was not corrupted: its sample is the original one
\* and its target and status are the sentinel.
NotCorrupted(i) ==
    /\ samples[i] = X[i]
    /\ targets[i] = MASK_TOKEN
    /\ self_status[i] = MASK_TOKEN

\* C12: a provider built with p not None holds, for every position of the
\* dataset, either the true target and status next to a sample that is the
\* mask token, noise or the original, or the original sample next to the
\* sentinel -1 as target and as status; at no position is one of target and
\* status the sentinel and the other a true value.
C12_MaskedPositionsAreCorruptedOrSentinel ==
    (p # None /\ wg_pc \in {"ready", "served"}) =>
        /\ Len(samples) = Len(X)
        /\ Len(targets) = Len(X)
        /\ Len(self_status) = Len(X)
        /\ \A i \in 1..Len(X) :
              /\ Corrupted(i) # NotCorrupted(i)
              /\ (targets[i] = MASK_TOKEN) <=> (self_status[i] = MASK_TOKEN)

\* A masking provider served a training batch; one position of its data
\* holds the mask token, one holds noise and one was not corrupted.
C12_Witness ==
    /\ Served
    /\ train
    /\ p = <<20>>
    /\ \E i, j, k \in 1..Len(X) :
          /\ samples[i] = MASK_TOKEN /\ targets[i] = y[i]
          /\ samples[j] \in NoiseValues /\ self_status[j] = activations[j]
          /\ NotCorrupted(k)
    /\ returned[2] = <<MASK_TOKEN>>

-----------------------------------------------------------------------------
(* tflite_infer (common.py): bounds and inputs.                            *)

\* num_eval is 0..MaxEval and eval_offset is 0..MaxOffset.
MaxEval == 4
MaxOffset == 2

\* The provider handed to tflite_infer serves single windows with their
\* targets ("batch should always be set to 1 for inference"; infer()
\* unpacks sample, target and status) and does not mask.
InferShapes == (1..MaxTotal) \X (1..MaxWindow)

\* The aggregate column of a dataset whose first z samples are missing
\* (zero).
GapLengths == {0, 2, 3}
gap_aggregate(n, z) == [i \in 1..n |-> IF i <= z THEN 0 ELSE 10 + i]

\* input_details[0] and output_details[0]: a float32 tensor, or an integer
\* tensor with its quantization parameters scales[0] and zero_points[0].
InputDetails ==
    {[floating |-> TRUE, scale |-> 0, zero_point |-> 0],
     [floating |-> FALSE, scale |-> 2, zero_point |-> -3]}
OutputDetails ==
    {[floating |-> TRUE, scale |-> 0, zero_point |-> 0],
     [floating |-> FALSE, scale |-> 3, zero_point |-> 1]}

\* What interpreter.get_tensor(output_index) holds after invoke().
OutputValues == {-4, 5}

-----------------------------------------------------------------------------
(* tflite_infer, statement by statement.                                   *)

\* astype(int) of the quotient a / b, b > 0: toward zero.
trunc_div(a, b) == IF a >= 0 THEN a \div b ELSE -((-a) \div b)

\* Mutant: the input is converted twice.
quantize_twice(v, details) ==
    LET once == trunc_div(v + details.zero_point * details.scale, details.scale)
    IN  trunc_div(once + details.zero_point * details.scale, details.scale)

\* sample / input_scale + input_zero_point, then astype(input_dtype), for
\* one element: (v + zero_point * scale) / scale, toward zero. The values
\* of gap_aggregate stay within the integer type.
quantize(v, details) ==
    trunc_div(v + details.zero_point * details.scale, details.scale)

\* The tensor given to set_tensor for the batch sample.
convert_input(sample, details) ==
    IF details.floating
    THEN sample
    ELSE [b \in 1..Len(sample) |->
            [j \in 1..Len(sample[b]) |->
                <<quantize(sample[b][j][1], details)>>]]

\* (prediction - output_zero_point) * output_scale
dequantize(v, details) == (v - details.zero_point) * details.scale

\* The prediction returned for the squeezed output v.
convert_output(v, details) ==
    IF details.floating THEN v ELSE dequantize(v, details)

\* Mutant: every window is given to the interpreter.
sample_any_always(sample) == TRUE

\* sample.any()
sample_any(sample) ==
    \E b \in 1..Len(sample) : \E j \in 1..Len(sample[b]) : sample[b][j][1] # 0

\* np.squeeze(target): the target of a batch of one window is a scalar.
squeeze_target(target) == IF Len(target) = 1 THEN target[1] ELSE target

\* np.squeeze(result) of the output tensor, whose shape is (1, 1).
squeeze_result(result) == result[1][1]

\* if num_eval - eval_offset > samples_per_batch: raise ValueError
range_check(ne, off, spb) == ne - off > spb

\* list(range(samples_per_batch))[eval_offset : num_eval + eval_offset]
eval_indices_of(ne, off, spb) == py_slice(np_arange(spb), off, ne + off)

-----------------------------------------------------------------------------
(* tflite_infer as a state machine.                                        *)

InferInit ==
    /\ \E shape \in InferShapes, z \in GapLengths :
          /\ X = gap_aggregate(shape[1], z)
          /\ y = appliance_of(shape[1])
          /\ activations = activation_of(shape[1])
          /\ window_length = shape[2]
    /\ batch_size = 1
    /\ train = TRUE
    /\ shuffle \in BOOLEAN
    /\ p = None
    /\ wg_pc = "new"
    /\ total_samples = 0
    /\ window_center = 0
    /\ num_samples = 0
    /\ indices = <<>>
    /\ samples = <<>>
    /\ targets = <<>>
    /\ self_status = <<>>
    /\ len_result = <<>>
    /\ item_index = 0
    /\ rows = <<>>
    /\ returned = <<>>
    /\ input_details \in InputDetails
    /\ output_details \in OutputDetails
    /\ num_eval = 0
    /\ eval_offset = 0
    /\ infer_pc = "new"
    /\ samples_per_batch = 0
    /\ eval_indices = <<>>
    /\ results = <<>>
    /\ backend_log = <<>>

\* tflite_infer(interpreter, provider, num_eval, eval_offset) up to the
\* list comprehension: the range check and eval_indices.
TfliteInfer ==
    /\ wg_pc = "ready"
    /\ infer_pc = "new"
    /\ \E ne \in 0..MaxEval, off \in 0..MaxOffset :
          /\ num_eval' = ne
          /\ eval_offset' = off
          /\ samples_per_batch' = wg_len(num_samples, batch_size)
          /\ len_result' = <<samples_per_batch'>>
          /\ IF range_check(ne, off, samples_per_batch')
             THEN /\ infer_pc' = "raised"
                  /\ UNCHANGED eval_indices
             ELSE /\ infer_pc' = "running"
                  /\ eval_indices' = eval_indices_of(ne, off, samples_per_batch')
    /\ UNCHANGED <<input_details, output_details, results, backend_log>>
    /\ UNCHANGED <<datasetVars, argVars, attrVars, wg_pc, indices, item_index,
                   rows, returned>>
    /\ UNCHANGED nonInferVars

\* infer(i) for the next i of eval_indices, its result appended to results.
Infer ==
    /\ infer_pc = "running"
    /\ Len(results) < Len(eval_indices)
    /\ LET i == eval_indices[Len(results) + 1]
       IN  /\ GetItemAt(i)
           /\ IF wg_pc' = "failed"
              THEN /\ infer_pc' = "raised"
                   /\ UNCHANGED <<results, backend_log>>
              ELSE LET sample == returned'[1]
                       target == returned'[2]
                   IN  /\ infer_pc' = "running"
                       /\ IF ~sample_any(sample)
                          THEN /\ results' = Append(results, <<0, 0>>)
                               /\ UNCHANGED backend_log
                          ELSE \E out \in OutputValues :
                                 /\ backend_log' = backend_log \o
                                       <<[op |-> "set_tensor", item |-> i,
                                          tensor |-> convert_input(sample, input_details)],
                                         [op |-> "invoke", item |-> i,
                                          tensor |-> <<>>],
                                         [op |-> "get_tensor", item |-> i,
                                          tensor |-> <<<<out>>>>]>>
                                 /\ results' = Append(results,
                                       <<squeeze_target(target),
                                         convert_output(squeeze_result(<<<<out>>>>),
                                                        output_details)>>)
    /\ UNCHANGED <<input_details, output_details, num_eval, eval_offset,
                   samples_per_batch, eval_indices>>
    /\ UNCHANGED nonInferVars

\* return results
TfliteInferReturn ==
    /\ infer_pc = "running"
    /\ Len(results) = Len(eval_indices)
    /\ infer_pc' = "returned"
    /\ UNCHANGED <<input_details, output_details, num_eval, eval_offset,
                   samples_per_batch, eval_indices, results, backend_log>>
    /\ UNCHANGED windowVars
    /\ UNCHANGED nonInferVars

InferNext ==
    \/ Construct
    \/ TfliteInfer
    \/ Infer
    \/ TfliteInferReturn

InitInfer ==
    InferInit /\ StatusIdle /\ EmbedIdle /\ StepIdle /\ LayerIdle
    /\ FilterIdle /\ TwinIdle

SpecInfer == InitInfer /\ [][InferNext]_vars

-----------------------------------------------------------------------------
(* Properties of tflite_infer.                                             *)

\* tflite_infer went past its range check, or raised.
InferEntered == infer_pc \in {"running", "returned", "raised"}

\* The calls made on the interpreter for provider index i, in order.
BackendCallsFor(i) == SelectSeq(backend_log, LAMBDA call : call.item = i)

\* The window of provider index i (batches of one window), read off the
\* provider's data.
WindowAt(i) ==
    [j \in 1..window_length |-> samples[indices[i + 1] + j]]

AllZero(w) == \A j \in 1..Len(w) : w[j] = 0

\* C13 as stated: tflite_infer raises ValueError, before any inference,
\* whenever eval_offset + num_eval exceeds the provider's length.
C13_RaisesWhenRangeExceedsProvider ==
    (InferEntered /\ eval_offset + num_eval > samples_per_batch) =>
        /\ infer_pc = "raised"
        /\ results = <<>>
        /\ backend_log = <<>>

\* C14: a window whose samples are all zero is reported as (0, 0) and the
\* interpreter is not called for it; for every other window the interpreter
\* is called exactly once: one set_tensor, one invoke, one get_tensor.
C14_ZeroWindowsSkipTheBackend ==
    /\ \A k \in 1..Len(results) :
          LET i == eval_indices[k]
              calls == BackendCallsFor(i)
          IN  IF AllZero(WindowAt(i))
              THEN /\ results[k] = <<0, 0>>
                   /\ calls = <<>>
              ELSE /\ Len(calls) = 3
                   /\ calls[1].op = "set_tensor"
                   /\ calls[2].op = "invoke"
                   /\ calls[3].op = "get_tensor"
                   /\ results[k][1] = targets[indices[i + 1] + window_center + 1]
    /\ \A c \in 1..Len(backend_log) :
          \E k \in 1..Len(results) : eval_indices[k] = backend_log[c].item

\* tflite_infer returned a list that holds the result of a window of zeros
\* and the result of a window that went to the interpreter.
C14_Witness ==
    /\ infer_pc = "returned"
    /\ \E k1, k2 \in 1..Len(results) :
          /\ AllZero(WindowAt(eval_indices[k1]))
          /\ results[k1] = <<0, 0>>
          /\ ~AllZero(WindowAt(eval_indices[k2]))
          /\ Len(BackendCallsFor(eval_indices[k2])) = 3

\* q is the real number a / b + c (b > 0) with its fraction dropped.
IsTruncated(q, a, b, c) ==
    LET n == a + c * b
    IN  IF n >= 0
        THEN q * b <= n /\ n < (q + 1) * b
        ELSE (q - 1) * b < n /\ n <= q * b

\* C15: with an integer input the tensor given to set_tensor is the window
\* scaled and offset once, sample / scale + zero_point per element, and it
\* is set before invoke; with an integer output the prediction is
\* (output - zero_point) * scale of what get_tensor returned after invoke;
\* a float32 input is set as served and a float32 output is returned as
\* read.
C15_ConvertedOnceEachWay ==
    \A k \in 1..Len(results) :
        LET i == eval_indices[k]
            calls == BackendCallsFor(i)
            w == WindowAt(i)
        IN  ~AllZero(w) =>
              /\ calls[1].op = "set_tensor"
              /\ calls[2].op = "invoke"
              /\ calls[3].op = "get_tensor"
              /\ Len(calls[1].tensor) = 1
              /\ Len(calls[1].tensor[1]) = window_length
              /\ \A j \in 1..window_length :
                    IF input_details.floating
                    THEN calls[1].tensor[1][j] = <<w[j]>>
                    ELSE IsTruncated(calls[1].tensor[1][j][1], w[j],
                                     input_details.scale,
                                     input_details.zero_point)
              /\ results[k][2] =
                    IF output_details.floating
                    THEN calls[3].tensor[1][1]
                    ELSE (calls[3].tensor[1][1] - output_details.zero_point)
                            * output_details.scale

\* An integer model ran on a window that holds an odd sample: the tensor
\* set differs from the window and the prediction from the output read.
C15_Witness ==
    /\ infer_pc = "returned"
    /\ ~input_details.floating
    /\ ~output_details.floating
    /\ \E k \in 1..Len(results) :
          LET calls == BackendCallsFor(eval_indices[k])
              w == WindowAt(eval_indices[k])
          IN  /\ ~AllZero(w)
              /\ \E j \in 1..window_length : w[j] % 2 = 1
              /\ calls[1].tensor[1][1] # <<w[1]>>
              /\ results[k][2] # calls[3].tensor[1][1]

-----------------------------------------------------------------------------
(* RelativePositionEmbedding (transformer_model.py).                       *)

\* Layers of max_length 1..MaxEmbed are built, next to the model's own.
MaxEmbed == 12
\* The model's layer: max_length = latent_len = window_length // 2.
LATENT_LEN == PROFILE_WINDOW \div 2

\* tf.cast(tf.math.ceil(n / 2), dtype=tf.int32)
half_ceil(n) == (n + 1) \div 2

\* embeddings[::-1]
reversed(emb) == [k \in 1..Len(emb) |-> emb[Len(emb) + 1 - k]]

\* Mutant: the whole of the embeddings, whatever the sequence length.
determine_pe1_whole(seq_len, emb) == emb

\* determine_pe1: embeddings for an even seq_len, embeddings[1:] otherwise.
determine_pe1(seq_len, emb) ==
    IF seq_len % 2 = 0 THEN emb ELSE py_slice(emb, 1, Len(emb))

\* The rows call() concatenates for a sequence of seq_len positions:
\* pe2 = embeddings[::-1] and then pe1, with embeddings =
\* self._embeddings[:half_act_seq_len].
concat_embeddings(table, seq_len) ==
    LET emb == py_slice(table, 0, half_ceil(seq_len))
    IN  reversed(emb) \o determine_pe1(seq_len, emb)

\* RelativePositionEmbedding.__init__(max_length)
EmbedInit ==
    /\ max_length \in (1..MaxEmbed) \cup {LATENT_LEN}
    /\ embeddings = <<>>
    /\ actual_seq_len = 0
    /\ position_embeddings = <<>>
    /\ pe_pc = "new"

\* build: a table of ceil(max_length / 2) rows; row k of the table is the
\* learned vector e_k and is written k.
Build ==
    /\ pe_pc = "new"
    /\ embeddings' = [k \in 1..half_ceil(max_length) |-> k - 1]
    /\ pe_pc' = "built"
    /\ UNCHANGED <<max_length, actual_seq_len, position_embeddings>>
    /\ UNCHANGED nonEmbedVars

\* call(inputs) on a sequence of seq_len positions, one more than
\* max_length at most; tf.reshape to seq_len rows fails for any other
\* number of rows.
Call ==
    /\ pe_pc \in {"built", "called", "failed"}
    /\ \E seq_len \in 0..(max_length + 1) :
          /\ actual_seq_len' = seq_len
          /\ LET pe == concat_embeddings(embeddings, seq_len)
             IN  IF Len(pe) = seq_len
                 THEN /\ position_embeddings' = pe
                      /\ pe_pc' = "called"
                 ELSE /\ position_embeddings' = <<>>
                      /\ pe_pc' = "failed"
    /\ UNCHANGED <<max_length, embeddings>>
    /\ UNCHANGED nonEmbedVars

EmbedNext ==
    \/ Build
    \/ Call

InitEmbed ==
    EmbedInit /\ StatusIdle /\ WindowIdle /\ InferIdle /\ StepIdle /\ LayerIdle
    /\ FilterIdle /\ TwinIdle

SpecEmbed == InitEmbed /\ [][EmbedNext]_vars

\* C16: for every sequence length L up to max_length the layer emits L
\* rows, and the rows read the same from both ends: row i equals row
\* L - 1 - i.
C16_EmbeddingIsPalindromeOfLengthL ==
    (pe_pc \in {"called", "failed"} /\ actual_seq_len <= max_length) =>
        /\ pe_pc = "called"
        /\ Len(position_embeddings) = actual_seq_len
        /\ \A i \in 0..(actual_seq_len - 1) :
              position_embeddings[i + 1] =
                  position_embeddings[(actual_seq_len - 1 - i) + 1]

\* The model's layer was called on 299 positions: row e_149 at both ends
\* and row e_0 once, in the middle.
C16_Witness ==
    /\ pe_pc = "called"
    /\ max_length = 299
    /\ actual_seq_len = 299
    /\ position_embeddings[1] = 149
    /\ position_embeddings[299] = 149
    /\ position_embeddings[150] = 0
    /\ position_embeddings[149] = 1
    /\ position_embeddings[151] = 1

-----------------------------------------------------------------------------
(* NILMTransformerModelFit (transformer_model.py): train_step, test_step.  *)

\* A batch holds 1..MaxBatchLen windows.
MaxBatchLen == 3
\* A model takes at most MaxSteps steps between two resets of its metrics,
\* and at most MaxSteps training steps in all.
MaxSteps == 2
\* A model that is fitted is given batches of at most MaxFollowed windows,
\* one after the other.
MaxFollowed == 1

\* (y, y_status) of one window, in units in which the on-threshold is
\* THRESHOLD: excluded from the loss (the sentinel twice, as a masking
\* provider serves it), off at zero power, off with some power, on.
TargetPairs == {<<MASK_TOKEN, MASK_TOKEN>>, <<0, 0>>, <<1, 0>>, <<3, 1>>}
\* What the forward pass returns for one window: below, at and above the
\* threshold.
PredValues == {0, 2, 4}
\* self.threshold, the normalized on-power threshold.
THRESHOLD == 2

\* The element pairs of two arrays of one shape.
zip2(a, b) == [i \in 1..Len(a) |-> <<a[i], b[i]>>]

\* A Keras loss called on two arrays: the mean of fn over their element
\* pairs. It is written as fn and the pairs it averages; the mean of no
\* element is NaN.
keras_mean(fn, a, b) == [fn |-> fn, over |-> zip2(a, b)]

\* The constant 0.0.
ZERO == [fn |-> "zero", over |-> <<>>]

is_nan(term) == term.fn # "zero" /\ term.over = <<>>

\* Mutant: every position is included in the loss.
loss_mask_all(y_status) == [i \in 1..Len(y_status) |-> TRUE]

\* mask = (y_status > -1)
loss_mask(y_status) == [i \in 1..Len(y_status) |-> y_status[i] > -1]

\* Mutant: a prediction at the threshold counts as off.
pred_status_above(y_pred, thr) ==
    [i \in 1..Len(y_pred) |-> IF y_pred[i] > thr THEN 1 ELSE 0]

\* y_pred_status = tf.where(y_pred >= self.threshold, 1.0, 0.0)
pred_status(y_pred, thr) ==
    [i \in 1..Len(y_pred) |-> IF y_pred[i] >= thr THEN 1 ELSE 0]

\* compute_l1_loss: mask = y_on | wrong
l1_mask(y_status, y_pred_status) ==
    [i \in 1..Len(y_status) |->
        y_status[i] > 0 \/ y_status[i] # y_pred_status[i]]

\* compute_l1_loss: tf.where(tf.reduce_any(mask), self.l1_on(y, y_pred), 0.0)
compute_l1_loss(yy, y_status, y_pred, y_pred_status) ==
    LET mask == l1_mask(y_status, y_pred_status)
    IN  IF \E i \in 1..Len(mask) : mask[i]
        THEN keras_mean("l1_on", bool_index(yy, mask), bool_index(y_pred, mask))
        ELSE ZERO

\* The loss of a step, from the prediction status to
\* loss = mse_loss + bce_loss + self.l1_loss_c0 * l1_loss: the sum is
\* written as its terms, and it is NaN when one of them is.
compute_loss(yy, y_status, y_pred, thr, c0) ==
    LET y_pred_status == pred_status(y_pred, thr)
        mse_loss == keras_mean("mse", yy, y_pred)
        bce_loss == keras_mean("bce", y_status, y_pred_status)
        l1_loss == compute_l1_loss(yy, y_status, y_pred, y_pred_status)
    IN  [mse |-> mse_loss, bce |-> bce_loss, c0 |-> c0, l1 |-> l1_loss,
         nan |-> is_nan(mse_loss) \/ is_nan(bce_loss) \/ is_nan(l1_loss)]

\* The layers of the model that hold weights.
TrainableLayers ==
    {"conv", "position", "add_norm1", "transformer_layers",
     "relative_position", "dense1", "add_norm2", "dense2"}

\* Mutant: only the regression head is updated.
apply_gradients_head_only(weights) ==
    [layer \in DOMAIN weights |->
        IF layer = "dense2" THEN weights[layer] + 1 ELSE weights[layer]]

\* gradients = tape.gradient(loss, trainable_vars);
\* self.optimizer.apply_gradients(zip(gradients, trainable_vars)): one
\* update of every trainable variable.
apply_gradients(weights) == [layer \in DOMAIN weights |-> weights[layer] + 1]

\* Mutant: the loss tracker is not listed.
metrics_without_loss == {"mae", "msle"}

\* The metrics property: [self.loss_tracker, self.mae_metric,
\* self.msle_metric]
metrics == {"loss", "mae", "msle"}

\* The dict a step returns: result() of the three objects, each written as
\* the list of what it was given since its last reset (the loss tracker
\* averages the losses, the two metrics the errors of the pairs).
step_return(kind, tracker, mae, msle) ==
    [step |-> kind, loss |-> tracker, mae |-> mae, msle |-> msle]

\* The batches given to a step: data[1], data[2] and the forward pass.
RECURSIVE Batches(_)
Batches(n) ==
    IF n = 0
    THEN {<<>>}
    ELSE {Append(b, <<t[1], t[2], v>>) :
            b \in Batches(n - 1), t \in TargetPairs, v \in PredValues}

\* The batches of n windows that follow another batch: n times one window.
FollowingBatches(n) ==
    {[i \in 1..n |-> <<t[1], t[2], v>>] : t \in TargetPairs, v \in PredValues}

\* A model after compile(), and the batch of its steps.
StepInit ==
    /\ \E n \in 1..MaxBatchLen : \E b \in Batches(n) :
          /\ data_y = [i \in 1..n |-> b[i][1]]
          /\ data_status = [i \in 1..n |-> b[i][2]]
          /\ forward_pred = [i \in 1..n |-> b[i][3]]
    /\ model_threshold = THRESHOLD
    /\ l1_loss_c0 = 1
    /\ applied = 0
    /\ trainable_variables = [layer \in TrainableLayers |-> 0]
    /\ loss_tracker = <<>>
    /\ mae_metric = <<>>
    /\ msle_metric = <<>>
    /\ train_out = <<>>
    /\ test_out = <<>>
    /\ step_result = <<>>

\* train_step(data)
TrainStep ==
    /\ Len(loss_tracker) < MaxSteps
    /\ applied < MaxSteps
    /\ LET mask == loss_mask(data_status)
           yy == bool_index(data_y, mask)
           y_pred == bool_index(forward_pred, mask)
           y_status == bool_index(data_status, mask)
           loss == compute_loss(yy, y_status, y_pred, model_threshold,
                                l1_loss_c0)
       IN  /\ applied' = applied + 1
           /\ trainable_variables' = apply_gradients(trainable_variables)
           /\ loss_tracker' = Append(loss_tracker, loss)
           /\ mae_metric' = Append(mae_metric, zip2(yy, y_pred))
           /\ msle_metric' = Append(msle_metric, zip2(yy, y_pred))
           /\ train_out' = <<[loss |-> loss, metrics |-> zip2(yy, y_pred)]>>
           /\ step_result' = <<step_return("train", loss_tracker',
                                            mae_metric', msle_metric')>>
    /\ UNCHANGED <<batchVars, model_threshold, l1_loss_c0, test_out>>
    /\ UNCHANGED nonStepVars

\* test_step(data)
TestStep ==
    /\ Len(loss_tracker) < MaxSteps
    /\ LET loss == compute_loss(data_y, data_status, forward_pred,
                                model_threshold, l1_loss_c0)
       IN  /\ loss_tracker' = Append(loss_tracker, loss)
           /\ mae_metric' = Append(mae_metric, zip2(data_y, forward_pred))
           /\ msle_metric' = Append(msle_metric, zip2(data_y, forward_pred))
           /\ test_out' = <<[loss |-> loss,
                             metrics |-> zip2(data_y, forward_pred)]>>
           /\ step_result' = <<step_return("test", loss_tracker',
                                            mae_metric', msle_metric')>>
    /\ UNCHANGED <<batchVars, model_threshold, l1_loss_c0, applied,
                   trainable_variables, train_out>>
    /\ UNCHANGED nonStepVars

\* reset_states() of every object the metrics property lists, as fit()
\* and evaluate() call it at the start of an epoch.
ResetStates ==
    /\ loss_tracker # <<>>
    /\ loss_tracker' = IF "loss" \in metrics THEN <<>> ELSE loss_tracker
    /\ mae_metric' = IF "mae" \in metrics THEN <<>> ELSE mae_metric
    /\ msle_metric' = IF "msle" \in metrics THEN <<>> ELSE msle_metric
    /\ step_result' = <<>>
    /\ UNCHANGED <<batchVars, model_threshold, l1_loss_c0, applied,
                   trainable_variables, train_out, test_out>>
    /\ UNCHANGED nonStepVars

\* fit() and evaluate() give the model the next batch of the provider, a
\* batch of the same length.
NextBatch ==
    /\ Len(loss_tracker) < MaxSteps
    /\ \E b \in FollowingBatches(Len(data_y)) :
          /\ data_y' = [i \in 1..Len(b) |-> b[i][1]]
          /\ data_status' = [i \in 1..Len(b) |-> b[i][2]]
          /\ forward_pred' = [i \in 1..Len(b) |-> b[i][3]]
    /\ train_out' = <<>>
    /\ test_out' = <<>>
    /\ UNCHANGED <<model_threshold, l1_loss_c0, applied, trainable_variables,
                   loss_tracker, mae_metric, msle_metric, step_result>>
    /\ UNCHANGED nonStepVars

StepNext ==
    \/ TrainStep
    \/ TestStep
    \/ ResetStates

InitStep ==
    StepInit /\ StatusIdle /\ WindowIdle /\ InferIdle /\ EmbedIdle /\ LayerIdle
    /\ FilterIdle /\ TwinIdle

SpecStep == InitStep /\ [][StepNext]_vars

\* A model that is given one batch after the other, each of them n times
\* one window.
FitInit ==
    /\ StepInit
    /\ Len(data_y) <= MaxFollowed
    /\ \E b \in FollowingBatches(Len(data_y)) :
          /\ data_y = [i \in 1..Len(b) |-> b[i][1]]
          /\ data_status = [i \in 1..Len(b) |-> b[i][2]]
          /\ forward_pred = [i \in 1..Len(b) |-> b[i][3]]

FitNext ==
    \/ TrainStep
    \/ TestStep
    \/ ResetStates
    \/ NextBatch

InitFit ==
    FitInit /\ StatusIdle /\ WindowIdle /\ InferIdle /\ EmbedIdle /\ LayerIdle
    /\ FilterIdle /\ TwinIdle

SpecFit == InitFit /\ [][FitNext]_vars

-----------------------------------------------------------------------------
(* Properties of train_step and test_step. The positions of a batch are    *)
(* 1..Len(data_y).                                                         *)

BatchPositions == 1..Len(data_y)

\* The elements of seq at the positions in S, in order.
FilterIdx(seq, S) ==
    LET F[k \in 0..Len(seq)] ==
            IF k = 0 THEN <<>>
            ELSE IF k \in S THEN Append(F[k - 1], seq[k]) ELSE F[k - 1]
    IN  F[Len(seq)]

\* The predicted status of position i: 1 when the prediction is at or above
\* the threshold.
PredStatus(i) == IF forward_pred[i] >= model_threshold THEN 1 ELSE 0

\* (y, y_pred) and (y_status, y_pred_status) of every position.
YPred == [i \in BatchPositions |-> <<data_y[i], forward_pred[i]>>]
StatusPred == [i \in BatchPositions |-> <<data_status[i], PredStatus(i)>>]

\* The positions whose status is not the sentinel.
Included == {i \in BatchPositions : data_status[i] > -1}

\* Position i is on, or its status is not the predicted one.
OnOrWrong(i) == data_status[i] = 1 \/ data_status[i] # PredStatus(i)

\* C17: the losses and the metric updates of a training step are computed
\* over the positions whose status is above -1, and over no other: MSE, BCE
\* and the arrays given to the MAE and MSLE metrics over all of them, the
\* L1 term over those of them it selects.
C17_TrainStepUsesOnlyIncludedPositions ==
    train_out # <<>> =>
        /\ train_out[1].loss.mse.over = FilterIdx(YPred, Included)
        /\ train_out[1].loss.bce.over = FilterIdx(StatusPred, Included)
        /\ train_out[1].loss.l1.over =
              FilterIdx(YPred, {i \in Included : OnOrWrong(i)})
        /\ train_out[1].metrics = FilterIdx(YPred, Included)

\* A training step on a batch of three windows of which some, not all,
\* carry the sentinel.
C17_Witness ==
    /\ train_out # <<>>
    /\ Len(data_y) = 3
    /\ Included # {}
    /\ Included # BatchPositions
    /\ Len(train_out[1].loss.mse.over) = Cardinality(Included)

\* C18 as stated: for one batch and one set of parameters the evaluation
\* step computes the losses and the metric updates of the training step,
\* also when the batch holds positions whose status is the sentinel -1.
C18_TestStepComputesWhatTrainStepDoes ==
    (train_out # <<>> /\ test_out # <<>>) => test_out = train_out

C20_L1OverOnOrMismatched ==
    /\ train_out # <<>> =>
          /\ train_out[1].loss.l1.over =
                FilterIdx(YPred, {i \in Included : OnOrWrong(i)})
          /\ \A i \in Included :
                ~OnOrWrong(i) <=>
                    (data_status[i] = 0 /\ forward_pred[i] < model_threshold)
    /\ test_out # <<>> =>
          /\ test_out[1].loss.l1.over =
                FilterIdx(YPred, {i \in BatchPositions : OnOrWrong(i)})
          /\ \A i \in BatchPositions :
                ~OnOrWrong(i) <=>
                    (data_status[i] = 0 /\ forward_pred[i] < model_threshold)

\* A training step on three windows: one off and predicted off, one on and
\* predicted on, one off and predicted exactly at the threshold; the L1
\* term averages the last two.
C20_Witness ==
    /\ train_out # <<>>
    /\ data_status = <<0, 1, 0>>
    /\ forward_pred = <<0, 4, 2>>
    /\ Len(train_out[1].loss.l1.over) = 2
    /\ train_out[1].loss.l1.fn = "l1_on"

-----------------------------------------------------------------------------
(* PositionEmbedding and TransformerBlock (transformer_model.py):          *)
(* construction and first call.                                            *)

\* max_length is None or -1..MaxPosLength; sequences of 1..MaxPosLength + 1
\* positions are embedded.
MaxPosLength == 3
\* hidden is 2..MaxHidden or the model depth of train.py; attn_heads is
\* 1..MaxHeads.
MaxHidden == 9
MaxHeads == 3
\* model_depth = 256
MODEL_DEPTH == 256

MaxLengthArgs == {None} \cup {<<n>> : n \in (-1)..MaxPosLength}
Hiddens == (2..MaxHidden) \cup {MODEL_DEPTH}

\* Mutant: a max_length that is not positive is rejected as well.
max_length_rejected_invalid(ml) == ml = None \/ ml[1] <= 0

\* PositionEmbedding.__init__: if max_length is None: raise ValueError
max_length_rejected(ml) == ml = None

\* Mutant: a hidden size that is odd is rejected.
block_rejected_odd(hidden, heads) == hidden % 2 # 0

\* TransformerBlock.__init__ and MultiHeadedAttention.__init__ test nothing.
block_rejected(hidden, heads) == FALSE

\* d_k = hidden // 2
block_d_k(hidden) == hidden \div 2

\* reshape_tensor: tf.reshape(x, shape=(batch, seq, heads, -1)) of the
\* projection of width d_k needs heads to divide d_k.
can_split_heads(d_k, heads) == d_k % heads = 0

LayerInit ==
    /\ pos_max_length \in MaxLengthArgs
    /\ pos_pc = "args"
    /\ pos_rows = 0
    /\ blk_hidden \in Hiddens
    /\ blk_heads \in 1..MaxHeads
    /\ blk_d_k = 0
    /\ blk_pc = "args"

\* PositionEmbedding.__init__(max_length)
PositionInit ==
    /\ pos_pc = "args"
    /\ pos_pc' = IF max_length_rejected(pos_max_length)
                 THEN "raised" ELSE "constructed"
    /\ UNCHANGED <<pos_max_length, pos_rows, blockVars>>
    /\ UNCHANGED nonLayerVars

\* PositionEmbedding.build, on the first call of the layer: add_weight of
\* shape [max_length, width] fails for a negative max_length.
PositionBuild ==
    /\ pos_pc = "constructed"
    /\ IF pos_max_length[1] < 0
       THEN /\ pos_pc' = "build_failed"
            /\ UNCHANGED pos_rows
       ELSE /\ pos_pc' = "built"
            /\ pos_rows' = pos_max_length[1]
    /\ UNCHANGED <<pos_max_length, blockVars>>
    /\ UNCHANGED nonLayerVars

\* PositionEmbedding.call on a sequence of seq_len positions: the slice
\* [:actual_seq_len] of the table is reshaped to actual_seq_len rows.
PositionCall ==
    /\ pos_pc \in {"built", "called", "call_failed"}
    /\ \E seq_len \in 1..(MaxPosLength + 1) :
          pos_pc' = IF Min(seq_len, pos_rows) = seq_len
                    THEN "called" ELSE "call_failed"
    /\ UNCHANGED <<pos_max_length, pos_rows, blockVars>>
    /\ UNCHANGED nonLayerVars

\* TransformerBlock.__init__(hidden, attn_heads, ...)
BlockInit ==
    /\ blk_pc = "args"
    /\ IF block_rejected(blk_hidden, blk_heads)
       THEN /\ blk_pc' = "raised"
            /\ UNCHANGED blk_d_k
       ELSE /\ blk_pc' = "constructed"
            /\ blk_d_k' = block_d_k(blk_hidden)
    /\ UNCHANGED <<blk_hidden, blk_heads, positionVars>>
    /\ UNCHANGED nonLayerVars

\* TransformerBlock.call: the attention reshapes its projections into
\* heads.
BlockCall ==
    /\ blk_pc = "constructed"
    /\ blk_pc' = IF can_split_heads(blk_d_k, blk_heads)
                 THEN "called" ELSE "call_failed"
    /\ UNCHANGED <<blk_hidden, blk_heads, blk_d_k, positionVars>>
    /\ UNCHANGED nonLayerVars

LayerNext ==
    \/ PositionInit
    \/ PositionBuild
    \/ PositionCall
    \/ BlockInit
    \/ BlockCall

InitLayer ==
    LayerInit /\ StatusIdle /\ WindowIdle /\ InferIdle /\ EmbedIdle /\ StepIdle
    /\ FilterIdle /\ TwinIdle

SpecLayer == InitLayer /\ [][LayerNext]_vars

C22_RunningAggregatesAndReset ==
    /\ Len(mae_metric) = Len(loss_tracker)
    /\ Len(msle_metric) = Len(loss_tracker)
    /\ (step_result # <<>> /\ loss_tracker # <<>>) =>
          /\ step_result[1].loss = loss_tracker
          /\ step_result[1].mae = mae_metric
          /\ step_result[1].msle = msle_metric
    /\ (step_result # <<>> /\ Len(loss_tracker) = 1) =>
          LET over == IF step_result[1].step = "train"
                      THEN Included ELSE BatchPositions
              out == IF step_result[1].step = "train"
                     THEN train_out ELSE test_out
          IN  out # <<>> =>
                /\ step_result[1].loss = <<out[1].loss>>
                /\ step_result[1].mae = <<FilterIdx(YPred, over)>>
                /\ step_result[1].msle = <<FilterIdx(YPred, over)>>

\* The second training step of a model came after a reset: its dict holds
\* one loss.
C22_Witness ==
    /\ applied = 2
    /\ step_result # <<>>
    /\ step_result[1].step = "train"
    /\ Len(step_result[1].loss) = 1
    /\ loss_tracker = step_result[1].loss
    /\ train_out # <<>>

\* A step was taken: the loss tracker was given one more loss.
StepTaken == Len(loss_tracker') = Len(loss_tracker) + 1

\* C27: a training step updates every trainable variable once, by one call
\* of the optimizer, with the loss of its batch; an evaluation step leaves
\* every trainable variable as it was and changes the loss tracker and the
\* two metrics only.
C27_OptimizerOncePerTrainingStep ==
    [][StepTaken =>
         IF step_result'[1].step = "train"
         THEN /\ applied' = applied + 1
              /\ \A layer \in TrainableLayers :
                    trainable_variables'[layer] = trainable_variables[layer] + 1
              /\ loss_tracker'[Len(loss_tracker')] = train_out'[1].loss
         ELSE /\ applied' = applied
              /\ trainable_variables' = trainable_variables
              /\ UNCHANGED <<batchVars, model_threshold, l1_loss_c0,
                             train_out>>
              /\ mae_metric' # mae_metric
              /\ msle_metric' # msle_metric]_vars

\* A training step and then an evaluation step on its batch: every layer
\* was updated once.
C27_Witness ==
    /\ applied = 1
    /\ \A layer \in TrainableLayers : trainable_variables[layer] = 1
    /\ Len(loss_tracker) = 2
    /\ step_result[1].step = "test"
    /\ train_out # <<>>
    /\ test_out # <<>>

-----------------------------------------------------------------------------
(* The two filters of compute_status, read off the input trace.            *)

\* Every gap between two consecutive runs of R that lie from run a to run b
\* is at most the minimum-off duration: a and b are joined.
Joined(R, a, b) ==
    \A r1, r2 \in R :
        (NextRun(R, r1, r2) /\ Min(a[1], b[1]) <= r1[1]
                            /\ r2[1] <= Max(a[1], b[1])) =>
            r2[1] - r1[2] <= MinOffSamples

\* The span of the runs joined with r: from the first sample of the first
\* of them to one past the last sample of the last of them.
MergedSpan(R, r) ==
    LET chain == {q \in R : Joined(R, r, q)}
        first == CHOOSE q \in chain : \A o \in chain : q[1] <= o[1]
        last == CHOOSE q \in chain : \A o \in chain : q[2] >= o[2]
    IN  <<first[1], last[2]>>

\* The pairs <<on, off>> the two arrays hold.
PairsOf(on, off) == {<<on[k], off[k]>> : k \in 1..Min(Len(on), Len(off))}

\* C26: the on-duration filter is applied to the merged pairs: the
\* surviving pairs are exactly the merged spans of at least min_on samples,
\* so every raw run has status 1 on all of its samples when the span of the
\* runs joined with it reaches min_on, and status 0 on all of them
\* otherwise, whatever its own length.
C26_OnFilterAppliesToMergedPairs ==
    Returned =>
        LET R == RunsOf(InputOn)
        IN  /\ PairsOf(on_events, off_events) =
                  {m \in {MergedSpan(R, r) : r \in R} : RunLen(m) >= MinOnSamples}
            /\ \A r \in R :
                  \A i \in r[1]..(r[2] - 1) :
                      status[i + 1] =
                          IF RunLen(MergedSpan(R, r)) >= MinOnSamples
                          THEN 1 ELSE 0

\* Two raw runs, each shorter than min_on, joined by a short gap into a
\* span of at least min_on samples, come back as one run of 1s.
C26_Witness ==
    /\ Returned
    /\ \E r1, r2 \in RunsOf(InputOn) :
          /\ NextRun(RunsOf(InputOn), r1, r2)
          /\ RunLen(r1) < MinOnSamples
          /\ RunLen(r2) < MinOnSamples
          /\ r2[1] - r1[2] <= MinOffSamples
          /\ r2[2] - r1[1] >= MinOnSamples
          /\ \A i \in r1[1]..(r2[2] - 1) : status[i + 1] = 1

\* The two arrays have one length, every on-event lies before its off-event
\* and not before the off-event of the pair in front of it.
WellPaired(on, off) ==
    /\ Len(on) = Len(off)
    /\ \A j \in 1..Len(on) :
          /\ on[j] < off[j]
          /\ j > 1 => on[j] >= off[j - 1]

\* C30: for a trace with at least one run and every appliance profile, the
\* on-events and off-events are well paired after the off-duration filter
\* and after the on-duration filter; the length assertion never fails.
C30_FiltersKeepEventsPaired ==
    RunsOf(InputOn) # {} =>
        /\ pc \in {"off_filtered", "on_filtered", "done"} =>
              WellPaired(on_events, off_events)
        /\ pc # "failed"

\* The off-duration filter merged two of at least three raw runs and two
\* pairs are left.
C30_Witness ==
    /\ pc = "off_filtered"
    /\ Len(on_events) = 2
    /\ Cardinality(RunsOf(InputOn)) >= 3

-----------------------------------------------------------------------------
(* The two filters of compute_status as functions of the event arrays and  *)
(* of the two minimum durations in samples.                                *)

\* Where the events of the given arrays lie: gaps and runs of one or two
\* samples, and gaps longer than the value inserted in front of
\* off_duration.
EventPositions == <<0, 2, 3, 1004, 1006, 2010>>

\* events_idx after the boundary adjustment: an even number of ascending
\* positions, at least one pair.
EventArrays ==
    {bool_index(EventPositions, mask) :
        mask \in {m \in [1..Len(EventPositions) -> BOOLEAN] :
                    LET n == Cardinality({k \in DOMAIN m : m[k]})
                    IN  n > 0 /\ n % 2 = 0}}

\* Minimum-off durations in samples: those of the appliance profiles, and
\* values around the value inserted in front of off_duration.
MinOffs ==
    {min_off_duration(appl) : appl \in Appliances}
        \cup {1, FIRST_OFF_DURATION - 1, FIRST_OFF_DURATION,
              FIRST_OFF_DURATION + 1}

MinOns == {1, 2}

FilterInit ==
    /\ \E ev \in EventArrays :
          /\ flt_on_events = column_on(ev)
          /\ flt_off_events = column_off(ev)
    /\ flt_min_off \in MinOffs
    /\ flt_min_on \in MinOns
    /\ flt_on = flt_on_events
    /\ flt_off = flt_off_events
    /\ flt_pc = "args"

\* off_duration = ...; on_events = on_events[off_duration > min_off_duration];
\* off_events = off_events[np.roll(off_duration, -1) > min_off_duration]
FilterOffDuration ==
    /\ flt_pc = "args"
    /\ flt_on' = off_filter_on(flt_on, flt_off, flt_min_off)
    /\ flt_off' = off_filter_off(flt_on, flt_off, flt_min_off)
    /\ flt_pc' = "off_filtered"
    /\ UNCHANGED <<flt_on_events, flt_off_events, flt_min_off, flt_min_on>>
    /\ UNCHANGED nonFilterVars

\* on_duration = off_events - on_events and the two indexings with
\* on_duration >= min_on_duration, which raise on arrays of different
\* lengths; the assert after them.
FilterOnDuration ==
    /\ flt_pc = "off_filtered"
    /\ IF Len(flt_on) = Len(flt_off)
       THEN LET mask == on_duration_mask(flt_on, flt_off, flt_min_on)
            IN  /\ flt_on' = bool_index(flt_on, mask)
                /\ flt_off' = bool_index(flt_off, mask)
                /\ flt_pc' = IF Len(flt_on') = Len(flt_off')
                             THEN "on_filtered" ELSE "failed"
       ELSE /\ flt_pc' = "failed"
            /\ UNCHANGED <<flt_on, flt_off>>
    /\ UNCHANGED <<flt_on_events, flt_off_events, flt_min_off, flt_min_on>>
    /\ UNCHANGED nonFilterVars

FilterNext ==
    \/ FilterOffDuration
    \/ FilterOnDuration

InitFilter ==
    FilterInit /\ StatusIdle /\ WindowIdle /\ InferIdle /\ EmbedIdle /\ StepIdle
    /\ LayerIdle /\ TwinIdle

SpecFilter == InitFilter /\ [][FilterNext]_vars

\* The first on-event of the given arrays is the first one left.
FirstOnEventKept == flt_on # <<>> /\ flt_on[1] = flt_on_events[1]

\* The last off-event of the given arrays is the last one left.
LastOffEventKept ==
    flt_off # <<>> /\ flt_off[Len(flt_off)] = flt_off_events[Len(flt_off_events)]

C25_LastOffEventNotExempt ==
    flt_pc = "args" =>
        \E ev \in EventArrays, minoff \in MinOffs :
            LET on == column_on(ev)
                off == column_off(ev)
                kept_on == off_filter_on(on, off, minoff)
                kept_off == off_filter_off(on, off, minoff)
            IN  /\ kept_on # <<>>
                /\ kept_on[1] = on[1]
                /\ \/ kept_off = <<>>
                   \/ kept_off[Len(kept_off)] # off[Len(off)]

\* C25 amended: the rule is symmetric: np.roll moves the inserted 1000
\* behind the last gap, so the off-duration filter keeps the last run's
\* off-event exactly when it keeps the first run's on-event, that is when
\* the minimum-off duration is below 1000 samples.
C25_LastOffEventKeptLikeFirstOnEvent ==
    flt_pc = "off_filtered" =>
        /\ LastOffEventKept <=> FirstOnEventKept
        /\ LastOffEventKept <=> flt_min_off < FIRST_OFF_DURATION

\* The gap in front of the last run is short and the last run's off-event
\* is kept: it closes the merged run.
C25_Witness ==
    /\ flt_pc = "off_filtered"
    /\ Len(flt_on_events) >= 2
    /\ flt_on_events[Len(flt_on_events)]
          - flt_off_events[Len(flt_off_events) - 1] <= flt_min_off
    /\ LastOffEventKept
    /\ Len(flt_off) < Len(flt_off_events)

-----------------------------------------------------------------------------
(* The index array of the window provider and the reads of __getitem__.    *)

Constructed == wg_pc \in {"ready", "served"}

\* The array holds every window start 0..num_samples-1 once.
IsPermutationOfStarts(idx) ==
    /\ Len(idx) = Max(num_samples, 0)
    /\ {idx[i] : i \in 1..Len(idx)} = 0..(num_samples - 1)

\* Over the batch numbers 0..len-1, every place of the index array lies in
\* exactly one batch: the batches follow one another in the array, none is
\* empty and none reaches past the last place.
BatchesPartitionIndices ==
    LET n == Len(indices)
        len == wg_len(num_samples, batch_size)
    IN  /\ \A k \in 0..(len - 1) :
              Len(rows_of(indices, k, batch_size))
                  = Min(batch_size, n - k * batch_size)
        /\ \A i \in 1..n :
              LET k == (i - 1) \div batch_size
              IN  /\ k \in 0..(len - 1)
                  /\ rows_of(indices, k, batch_size)[i - k * batch_size]
                        = indices[i]

\* C28 as stated: the index array is a permutation of the window starts
\* after construction and after every on_epoch_end, every start is served
\* in exactly one batch of an epoch, and without shuffling batch k holds
\* the starts k*batch_size .. (k+1)*batch_size-1.
C28_PermutationAndFullBatches ==
    /\ Constructed => IsPermutationOfStarts(indices)
    /\ Constructed => BatchesPartitionIndices
    /\ (Served /\ ~shuffle) =>
          rows = [j \in 1..batch_size |-> item_index * batch_size + j - 1]

\* C28 amended: as stated, except that without shuffling batch k holds the
\* starts k*batch_size .. (k+1)*batch_size-1 that are window starts: the
\* last batch stops at num_windows-1.
C28_PermutationAndClippedBatches ==
    /\ Constructed => IsPermutationOfStarts(indices)
    /\ Constructed => BatchesPartitionIndices
    /\ (Constructed /\ ~shuffle) => indices = np_arange(num_samples)
    /\ (Served /\ ~shuffle) =>
          LET first == item_index * batch_size
              last == Min((item_index + 1) * batch_size, num_samples) - 1
          IN  rows = [j \in 1..(last - first + 1) |-> first + j - 1]

\* A provider that does not shuffle served its last batch, which holds
\* fewer than batch_size windows.
C28_Witness ==
    /\ Served
    /\ ~shuffle
    /\ item_index >= 1
    /\ item_index = wg_len(num_samples, batch_size) - 1
    /\ Len(rows) < batch_size

\* C29: for a dataset of more than window_length samples, every start
\* index of the provider has its slice [row, row + window_length) and its
\* center index row + window_center inside [0, total_samples); every
\* window served holds window_length samples and __getitem__ never fails.
C29_WindowsAndCentersInRange ==
    (Constructed /\ total_samples > window_length) =>
        /\ \A i \in 1..Len(indices) :
              /\ 0 <= indices[i]
              /\ indices[i] + window_length <= total_samples
              /\ indices[i] + window_center \in 0..(total_samples - 1)
        /\ Len(samples) = total_samples
        /\ Len(targets) = total_samples
        /\ Len(self_status) = total_samples
        /\ Served =>
              /\ \A b \in 1..Len(returned[1]) :
                    Len(returned[1][b]) = window_length
              /\ \A b \in 1..Len(rows) :
                    /\ 0 <= rows[b]
                    /\ rows[b] + window_length <= total_samples

\* A training batch that holds the last window start of the provider was
\* served.
C29_Witness ==
    /\ Served
    /\ train
    /\ total_samples > window_length
    /\ window_length >= 2
    /\ \E b \in 1..Len(rows) : rows[b] = num_samples - 1

-----------------------------------------------------------------------------
(* Two window providers built from one dataset with the same arguments.    *)
(* __init__ takes no seed: each provider's self.rng is a generator of its  *)
(* own that np.random.default_rng() seeds from the operating system.       *)

\* The size of the largest dataset two providers are built from.
MaxTwinTotal == 3

\* The proportions p of the two providers: none, or in percent.
TwinP == {None, <<0>>, <<100>>}

TwinInit ==
    /\ WindowInit
    /\ Len(X) <= MaxTwinTotal
    /\ p \in TwinP
    /\ batch_size = 1
    /\ train
    /\ twin_pc = "new"
    /\ twin_indices = <<>>
    /\ twin_samples = <<>>
    /\ twin_targets = <<>>
    /\ twin_status = <<>>

\* WindowGenerator.__init__ of the second provider: the same statements
\* on the same dataset and arguments, the draws are those of its own
\* generator.
TwinConstruct ==
    /\ twin_pc = "new"
    /\ IF p # None
       THEN \E run \in MaskedRuns(Len(X), p[1]) :
                /\ twin_samples' = [i \in 1..Len(run) |-> run[i].sample]
                /\ twin_targets' = [i \in 1..Len(run) |-> run[i].target]
                /\ twin_status' = [i \in 1..Len(run) |-> run[i].status]
       ELSE /\ twin_samples' = X
            /\ twin_targets' = y
            /\ twin_status' = activations
    /\ twin_indices' \in
          shuffle_if(shuffle, np_arange(num_samples_of(Len(X), window_length)))
    /\ twin_pc' = "ready"
    /\ UNCHANGED nonTwinVars

\* WindowGenerator.on_epoch_end of the second provider.
TwinOnEpochEnd ==
    /\ twin_pc = "ready"
    /\ twin_indices' \in shuffle_if(shuffle, twin_indices)
    /\ UNCHANGED <<twin_pc, twin_samples, twin_targets, twin_status>>
    /\ UNCHANGED nonTwinVars

TwinNext ==
    \/ Construct
    \/ OnEpochEnd
    \/ TwinConstruct
    \/ TwinOnEpochEnd

InitTwin ==
    TwinInit /\ StatusIdle /\ InferIdle /\ EmbedIdle /\ StepIdle /\ LayerIdle
    /\ FilterIdle

SpecTwin == InitTwin /\ [][TwinNext]_vars

BothConstructed == wg_pc = "ready" /\ twin_pc = "ready"

====
